---- MODULE Spec2Model ----
(***************************************************************************)
(* Document pipeline: ingestion, extraction (OCR), classification and the  *)
(* status reconciler (event pipeline), over a document store (MongoDB via  *)
(* mongoose), a cache (Redis) and a message channel (Kafka).               *)
(***************************************************************************)
EXTENDS Integers, Sequences, FiniteSets, TLC

VARIABLES
    submissions,     \* the Submission collection, in insertion order
    attachmentDocs,  \* the Attachment collection; a document's _id is its index
    cache,           \* Redis: key -> [value, ex]
    published,       \* Kafka: the messages sent, in order, as [topic, message]
    ing,             \* invocations of IngestionController.ingestion
    rec,             \* invocations of EventPipelineController.update
    ocr,             \* the invocation of OcrController.handle
    cls,             \* the invocation of ClassificationController.handle
    mailbox,         \* the INBOX: uid -> whether the message is flagged \Seen
    polls            \* invocations of LambdaService.handleCron

vars == <<submissions, attachmentDocs, cache, published, ing, rec, ocr, cls,
          mailbox, polls>>

----------------------------------------------------------------------------
(* Bounds of the model *)

\* ingestion invocations started in one run (2 = an event and its re-delivery)
MaxIngest == 2
\* EventPipelineService.update invocations that may be in flight at once
MaxInFlight == 2
\* messages in the mailbox, and polls started in one run
MaxMail == 2
MaxPolls == 2
\* writes to one Submission after which no further envelope is delivered to a
\* reconciler that handles any number of them
MaxUpdates == 5

----------------------------------------------------------------------------
(* Values *)

\* a field that is absent from a JavaScript object (undefined)
Undefined == "undefined"
\* a stored null (the schema's default for the optional entry fields)
Null == "null"

\* src/server/src/types.ts: interface Attachment
Att(fn, ct, url, text, classification, confidence) ==
    [filename |-> fn, content_type |-> ct, url |-> url, text |-> text,
     classification |-> classification, confidence |-> confidence]

\* the schema's cast of one entry of Attachment.attachments: an absent optional
\* field is stored as its default, null
CastEntry(a) ==
    [filename |-> a.filename, content_type |-> a.content_type, url |-> a.url,
     text |-> IF a.text = Undefined THEN Null ELSE a.text,
     classification |-> IF a.classification = Undefined THEN Null ELSE a.classification,
     confidence |-> IF a.confidence = Undefined THEN Null ELSE a.confidence]

CastAttachments(list) == [i \in 1..Len(list) |-> CastEntry(list[i])]

\* a variant that takes the collection's first document, whatever its id
FirstAny(subs, id) == IF Len(subs) > 0 THEN 1 ELSE 0

\* the first document of the Submission collection with this id, 0 if none:
\* what findOne({id}) returns and what updateOne({id}, ...) changes
FirstMatch(subs, id) ==
    IF \E i \in 1..Len(subs) : subs[i].id = id
    THEN CHOOSE i \in 1..Len(subs) :
            /\ subs[i].id = id
            /\ \A j \in 1..Len(subs) : subs[j].id = id => i <= j
    ELSE 0

----------------------------------------------------------------------------
(* Store operations *)

\* Both schemas set timestamps: true: a create stamps the document's updatedAt,
\* and every updateOne that matches a document stamps it anew, whatever it
\* sets. The ordinal of the write among the writes to the document stands for
\* its instant. An updateOne that matches nothing writes nothing.

\* the _id the cast gives each entry of an Attachment-set's list that has none:
\* new ones with every cast. doc: the Attachment-set, stamp: the write
NewIds(doc, stamp, list) == [i \in 1..Len(list) |-> <<doc, stamp, i>>]

\* submission.create({subject, sender, body, id, status: "ingestion in progress"}).
\* timestamp is the schema's default, the instant of the create: the ordinal of
\* the create among the collection's creates stands for it
SubmissionCreate(subs, md) ==
    Append(subs, [id |-> md.id, sender |-> md.sender, body |-> md.body,
                  timestamp |-> Len(subs) + 1,
                  status |-> "ingestion in progress", attachments |-> 0,
                  updatedAt |-> 1])

\* attachment.create({attachments}). ids[i] is the _id of entry i
AttachmentCreate(docs, list) ==
    Append(docs, [attachments |-> CastAttachments(list),
                  ids |-> NewIds(Len(docs) + 1, 1, list),
                  updatedAt |-> 1])

\* a variant that links the Attachment-set and leaves the status as it is
SubmissionLinkRefOnly(subs, id, ref) ==
    LET k == FirstMatch(subs, id) IN
    IF k = 0 THEN subs
    ELSE [subs EXCEPT ![k].attachments = ref, ![k].updatedAt = @ + 1]

\* submission.updateOne({id}, {$set: {attachments: _id, status: "ingestion done"}})
SubmissionLink(subs, id, ref) ==
    LET k == FirstMatch(subs, id) IN
    IF k = 0 THEN subs
    ELSE [subs EXCEPT ![k].attachments = ref, ![k].status = "ingestion done",
                      ![k].updatedAt = @ + 1]

\* a variant with an ordering guard: the status only moves forward
StageRank(status) ==
    CASE status = "ingestion in progress" -> 0
      [] status \in {"ingestion done", "ingestion_completed", "IMAP_DONE"} -> 1
      [] status = "ocr_completed" -> 2
      [] status = "classification_completed" -> 3
      [] OTHER -> 0

SubmissionSetStatusGuarded(subs, id, status) ==
    LET k == FirstMatch(subs, id) IN
    IF k = 0 \/ StageRank(status) < StageRank(subs[k].status) THEN subs
    ELSE [subs EXCEPT ![k].status = status, ![k].updatedAt = @ + 1]

\* a variant that upserts: no match inserts a Submission
SubmissionSetStatusUpsert(subs, id, status) ==
    LET k == FirstMatch(subs, id) IN
    IF k = 0
    THEN Append(subs, [id |-> id, sender |-> "", body |-> "",
                       timestamp |-> Len(subs) + 1, status |-> status,
                       attachments |-> 0, updatedAt |-> 1])
    ELSE [subs EXCEPT ![k].status = status, ![k].updatedAt = @ + 1]

\* a variant that replaces the matched Submission by a document holding the
\* filter's id and the status
SubmissionSetStatusReplacing(subs, id, status) ==
    LET k == FirstMatch(subs, id) IN
    IF k = 0 THEN subs
    ELSE [subs EXCEPT ![k] = [id |-> id, sender |-> "", body |-> "",
                              timestamp |-> Len(subs) + 1, status |-> status,
                              attachments |-> 0,
                              updatedAt |-> subs[k].updatedAt + 1]]

\* submission.updateOne({id}, {$set: {status}})
SubmissionSetStatus(subs, id, status) ==
    LET k == FirstMatch(subs, id) IN
    IF k = 0 THEN subs
    ELSE [subs EXCEPT ![k].status = status, ![k].updatedAt = @ + 1]

\* a variant that merges: a field the new entry lacks keeps its stored value
MergeEntry(old, new) ==
    [new EXCEPT !.text = IF new.text = Null THEN old.text ELSE new.text,
                !.classification = IF new.classification = Null
                                   THEN old.classification ELSE new.classification,
                !.confidence = IF new.confidence = Null
                               THEN old.confidence ELSE new.confidence]

AttachmentMerge(docs, ref, list) ==
    IF ref \in 1..Len(docs)
    THEN [docs EXCEPT ![ref].attachments =
            [i \in 1..Len(list) |->
                IF i <= Len(docs[ref].attachments)
                THEN MergeEntry(docs[ref].attachments[i], CastEntry(list[i]))
                ELSE CastEntry(list[i])],
                      ![ref].ids = NewIds(ref, docs[ref].updatedAt + 1, list),
                      ![ref].updatedAt = @ + 1]
    ELSE docs

\* a variant that inserts the list as a new Attachment-set
AttachmentInsert(docs, ref, list) ==
    IF ref \in 1..Len(docs)
    THEN Append(docs, [attachments |-> CastAttachments(list),
                       ids |-> NewIds(Len(docs) + 1, 1, list),
                       updatedAt |-> 1])
    ELSE docs

\* a variant that pushes the list onto the stored entries
AttachmentPush(docs, ref, list) ==
    IF ref \in 1..Len(docs)
    THEN [docs EXCEPT ![ref].attachments = @ \o CastAttachments(list),
                      ![ref].ids = @ \o NewIds(ref, docs[ref].updatedAt + 1, list),
                      ![ref].updatedAt = @ + 1]
    ELSE docs

\* attachment.updateOne({_id}, {$set: {attachments}}): the list is cast anew,
\* every entry gets a new _id, and the document is stamped
AttachmentSet(docs, ref, list) ==
    IF ref \in 1..Len(docs)
    THEN [docs EXCEPT ![ref].attachments = CastAttachments(list),
                      ![ref].ids = NewIds(ref, docs[ref].updatedAt + 1, list),
                      ![ref].updatedAt = @ + 1]
    ELSE docs

----------------------------------------------------------------------------
(* Inputs *)

\* entries as the mailbox poller's extractAttachments builds them
AttImage == Att("scan.png", "image/png", "u1", Undefined, Undefined, Undefined)
AttPdf == Att("doc.pdf", "application/pdf", "u2", Undefined, Undefined, Undefined)
AttOther == Att("note.txt", "text/plain", "u3", Undefined, Undefined, Undefined)
\* an entry that already carries the optional fields of the Attachment type
AttAnnotated == Att("memo.pdf", "application/pdf", "u4", "stale", "memo", "0.5")

\* a mailbox of MaxMail messages, none flagged \Seen
Unread == [u \in 1..MaxMail |-> FALSE]

\* the "document found" event of the poller (IngestionObject)
Found(id, list) ==
    [metadata |-> [subject |-> "s", sender |-> "a@b.com", body |-> "b", id |-> id,
                   attachments |-> list, submission_id |-> "imap done"]]

\* one event with attachments, one without, one whose entry carries optional
\* fields; a re-delivery repeats an event
IngestionInputs ==
    {Found("id-1", <<AttImage, AttPdf>>), Found("id-2", <<>>),
     Found("id-3", <<AttAnnotated>>)}

----------------------------------------------------------------------------
(* Cache and channel *)

\* redis.set(key, value) / redis.set(key, value, 'EX', seconds); ex = 0: no expiry
CacheSet(c, key, value, ex) ==
    [k \in DOMAIN c \cup {key} |->
        IF k = key THEN [value |-> value, ex |-> ex] ELSE c[k]]

\* kafkaService.publishMessage(topic, message)
Publish(log, topic, message) == Append(log, [topic |-> topic, message |-> message])

\* an Event envelope
Envelope(id, kind, data) == [id |-> id, message |-> kind, data |-> data]

----------------------------------------------------------------------------
(* Ingestion stage: IngestionController.ingestion awaits IngestionService.ingestion *)

\* a variant that passes the input's entries on as they are
IngestionPayloadRaw(md) ==
    [metadata |-> [subject |-> md.subject, sender |-> md.sender, body |-> md.body,
                   id |-> md.id, submission_id |-> md.id,
                   attachments |-> md.attachments]]

\* a variant that keeps the submission_id of the input
IngestionPayloadKeepingKey(md) ==
    [metadata |-> [subject |-> md.subject, sender |-> md.sender, body |-> md.body,
                   id |-> md.id, submission_id |-> md.submission_id,
                   attachments |-> [i \in 1..Len(md.attachments) |->
                        Att(md.attachments[i].filename, md.attachments[i].content_type,
                            md.attachments[i].url, Undefined, Undefined, Undefined)]]]

\* the OcrObject payload that ingestion builds
IngestionPayload(md) ==
    [metadata |-> [subject |-> md.subject, sender |-> md.sender, body |-> md.body,
                   id |-> md.id, submission_id |-> md.id,
                   attachments |-> [i \in 1..Len(md.attachments) |->
                        Att(md.attachments[i].filename, md.attachments[i].content_type,
                            md.attachments[i].url, Undefined, Undefined, Undefined)]]]

IngestionEvent(md) == Envelope(md.id, "ingestion_completed", IngestionPayload(md))

\* an await that threw: the service's promise rejects, and so does the handler's
IngFail(i) ==
    ing' = [ing EXCEPT ![i].pc = "failed", ![i].result = "rejected",
                       ![i].handler = "rejected"]

\* a variant that takes a cached snapshot of the event's id as proof that the
\* event was handled before, and returns at once
IngestionStartUnlessCached(m) ==
    /\ Len(ing) < MaxIngest
    /\ ing' = Append(ing,
            IF \E k \in DOMAIN cache : k = "redis:status:" \o m.metadata.id
            THEN [pc |-> "done", message |-> m, sub |-> 0, attch |-> 0,
                  handler |-> "resolved", result |-> "fulfilled"]
            ELSE [pc |-> "create", message |-> m, sub |-> 0, attch |-> 0,
                  handler |-> "pending", result |-> "pending"])
    /\ UNCHANGED <<submissions, attachmentDocs, cache, published, rec, ocr, cls, mailbox, polls>>

\* the handler is invoked with a message of submission.found
IngestionStart(m) ==
    /\ Len(ing) < MaxIngest
    /\ ing' = Append(ing, [pc |-> "create", message |-> m, sub |-> 0, attch |-> 0,
                           handler |-> "pending", result |-> "pending"])
    /\ UNCHANGED <<submissions, attachmentDocs, cache, published, rec, ocr, cls, mailbox, polls>>

\* a variant that swallows a failed create and goes on to the cache and the channel
IngestionCreateLenient(i, ok) ==
    /\ ing[i].pc = "create"
    /\ IF ok
       THEN /\ submissions' = SubmissionCreate(submissions, ing[i].message.metadata)
            /\ ing' = [ing EXCEPT ![i].sub = Len(submissions) + 1, ![i].pc = "cache"]
       ELSE /\ ing' = [ing EXCEPT ![i].pc = "cache"]
            /\ UNCHANGED submissions
    /\ UNCHANGED <<attachmentDocs, cache, published, rec, ocr, cls, mailbox, polls>>

\* a variant that publishes to ocr.init as soon as the Submission is created
IngestionCreateAnnouncing(i, ok) ==
    /\ ing[i].pc = "create"
    /\ IF ok
       THEN /\ submissions' = SubmissionCreate(submissions, ing[i].message.metadata)
            /\ published' = Publish(published, "ocr.init",
                                    IngestionPayload(ing[i].message.metadata))
            /\ ing' = [ing EXCEPT ![i].sub = Len(submissions) + 1,
                                  ![i].pc =
                    IF Len(ing[i].message.metadata.attachments) > 0
                    THEN "attach" ELSE "cache"]
       ELSE /\ IngFail(i)
            /\ UNCHANGED <<submissions, published>>
    /\ UNCHANGED <<attachmentDocs, cache, rec, ocr, cls, mailbox, polls>>

\* const sub = await submission.create(...); sub: the created document (its index)
IngestionCreate(i, ok) ==
    /\ ing[i].pc = "create"
    /\ IF ok
       THEN /\ submissions' = SubmissionCreate(submissions, ing[i].message.metadata)
            /\ ing' = [ing EXCEPT ![i].sub = Len(submissions) + 1,
                                  ![i].pc =
                    IF Len(ing[i].message.metadata.attachments) > 0
                    THEN "attach" ELSE "cache"]
       ELSE /\ IngFail(i)
            /\ UNCHANGED submissions
    /\ UNCHANGED <<attachmentDocs, cache, published, rec, ocr, cls, mailbox, polls>>

\* const attch = await attachment.create({attachments})
IngestionAttach(i, ok) ==
    /\ ing[i].pc = "attach"
    /\ IF ok
       THEN /\ attachmentDocs' = AttachmentCreate(attachmentDocs,
                                    ing[i].message.metadata.attachments)
            /\ ing' = [ing EXCEPT ![i].pc = "link", ![i].attch = Len(attachmentDocs) + 1]
       ELSE /\ IngFail(i)
            /\ UNCHANGED attachmentDocs
    /\ UNCHANGED <<submissions, cache, published, rec, ocr, cls, mailbox, polls>>

\* await submission.updateOne({id: sub.id}, {$set: {attachments, status}})
IngestionLink(i, ok) ==
    /\ ing[i].pc = "link"
    /\ IF ok
       THEN /\ submissions' = SubmissionLink(submissions, ing[i].message.metadata.id,
                                             ing[i].attch)
            /\ ing' = [ing EXCEPT ![i].pc = "cache"]
       ELSE /\ IngFail(i)
            /\ UNCHANGED submissions
    /\ UNCHANGED <<attachmentDocs, cache, published, rec, ocr, cls, mailbox, polls>>

\* a variant that goes on to the publishes when the cache write has failed
IngestionCacheLenient(i, ok) ==
    /\ ing[i].pc = "cache"
    /\ IF ok
       THEN cache' = CacheSet(cache, "redis:status:" \o ing[i].message.metadata.id,
                              IngestionEvent(ing[i].message.metadata), 0)
       ELSE UNCHANGED cache
    /\ ing' = [ing EXCEPT ![i].pc = "pub_event"]
    /\ UNCHANGED <<submissions, attachmentDocs, published, rec, ocr, cls, mailbox, polls>>

\* await redis.set(`redis:status:${event.id}`, JSON.stringify(event))
IngestionCache(i, ok) ==
    /\ ing[i].pc = "cache"
    /\ IF ok
       THEN /\ cache' = CacheSet(cache, "redis:status:" \o ing[i].message.metadata.id,
                                 IngestionEvent(ing[i].message.metadata), 0)
            /\ ing' = [ing EXCEPT ![i].pc = "pub_event"]
       ELSE /\ IngFail(i)
            /\ UNCHANGED cache
    /\ UNCHANGED <<submissions, attachmentDocs, published, rec, ocr, cls, mailbox, polls>>

\* await kafkaService.publishMessage('event.pipeline', event)
IngestionPublishEvent(i, ok) ==
    /\ ing[i].pc = "pub_event"
    /\ IF ok
       THEN /\ published' = Publish(published, "event.pipeline",
                                    IngestionEvent(ing[i].message.metadata))
            /\ ing' = [ing EXCEPT ![i].pc = "pub_ocr"]
       ELSE /\ IngFail(i)
            /\ UNCHANGED published
    /\ UNCHANGED <<submissions, attachmentDocs, cache, rec, ocr, cls, mailbox, polls>>

\* a variant that starts extraction only for an event that has attachments
IngestionPublishOcrIfAny(i, ok) ==
    /\ ing[i].pc = "pub_ocr"
    /\ IF ok
       THEN /\ published' =
                    IF Len(ing[i].message.metadata.attachments) > 0
                    THEN Publish(published, "ocr.init",
                                 IngestionPayload(ing[i].message.metadata))
                    ELSE published
            /\ ing' = [ing EXCEPT ![i].pc = "done", ![i].result = "fulfilled",
                                  ![i].handler = "resolved"]
       ELSE /\ IngFail(i)
            /\ UNCHANGED published
    /\ UNCHANGED <<submissions, attachmentDocs, cache, rec, ocr, cls, mailbox, polls>>

\* await kafkaService.publishMessage('ocr.init', payload); the service returns
IngestionPublishOcr(i, ok) ==
    /\ ing[i].pc = "pub_ocr"
    /\ IF ok
       THEN /\ published' = Publish(published, "ocr.init",
                                    IngestionPayload(ing[i].message.metadata))
            /\ ing' = [ing EXCEPT ![i].pc = "done", ![i].result = "fulfilled",
                                  ![i].handler = "resolved"]
       ELSE /\ IngFail(i)
            /\ UNCHANGED published
    /\ UNCHANGED <<submissions, attachmentDocs, cache, rec, ocr, cls, mailbox, polls>>

\* one run of the service with no failure and nothing interleaved, on the store
IngestOnce(store, m) ==
    LET md == m.metadata
        subs1 == SubmissionCreate(store[1], md)
    IN  IF Len(md.attachments) > 0
        THEN <<SubmissionLink(subs1, md.id, Len(store[2]) + 1),
               AttachmentCreate(store[2], md.attachments)>>
        ELSE <<subs1, store[2]>>

----------------------------------------------------------------------------
(* Status reconciler: EventPipelineController.update calls                  *)
(* EventPipelineService.update and does not await it                       *)

\* subDoc: what findOne returned (Null: no document); ref: subDoc.attachments
IdleRec == [pc |-> "idle", event |-> <<>>, subDoc |-> Undefined, ref |-> 0, pre |-> <<>>,
            again |-> FALSE, before |-> <<>>,
            handler |-> "none", result |-> "none", error |-> "none"]

Running(r) == rec[r].pc \in {"status", "find", "attach"}
Quiet == \A r \in DOMAIN rec : ~Running(r)

\* an envelope without data: event.data.metadata throws a TypeError
Malformed(e) == "data" \notin DOMAIN e

\* what the store holds for a submission id: the status and the Attachment-set
\* entries of the first Submission with that id
Stored(subs, docs, id) ==
    LET k == FirstMatch(subs, id) IN
    IF k = 0 THEN [found |-> FALSE, status |-> Null, ref |-> 0, attachments |-> <<>>]
    ELSE [found |-> TRUE, status |-> subs[k].status, ref |-> subs[k].attachments,
          attachments |-> IF subs[k].attachments = 0 THEN <<>>
                          ELSE docs[subs[k].attachments].attachments]

\* the handler is invoked with an envelope of event.pipeline: it starts the
\* service's update and returns at once, whatever becomes of the update.
\* pre, again and before are history: what the store held for the envelope's
\* submission then, whether the update just completed was of this same
\* envelope, and if so the store that update left
ReconcilerDeliver(r, e) ==
    /\ ~Running(r)
    /\ rec' = [rec EXCEPT ![r] =
                [pc |-> IF Malformed(e) THEN "failed" ELSE "status",
                 event |-> e, subDoc |-> Undefined, ref |-> 0,
                 pre |-> IF Malformed(e) THEN <<>>
                         ELSE Stored(submissions, attachmentDocs,
                                     e.data.metadata.submission_id),
                 again |-> rec[r].pc = "done" /\ rec[r].event = e,
                 before |-> IF rec[r].pc = "done" /\ rec[r].event = e
                            THEN <<submissions, attachmentDocs>> ELSE <<>>,
                 handler |-> "resolved",
                 result |-> IF Malformed(e) THEN "rejected" ELSE "pending",
                 error |-> IF Malformed(e) THEN "TypeError" ELSE "none"]]
    /\ UNCHANGED <<submissions, attachmentDocs, cache, published, ing, ocr, cls, mailbox, polls>>

\* a store call that threw: the update's promise rejects, nobody awaits it
RecFail(r) ==
    rec' = [rec EXCEPT ![r].pc = "failed", ![r].result = "rejected",
                       ![r].error = "MongoError"]

\* a variant that looks the Submission up by the envelope's id
ReconcilerStatusById(r, ok) ==
    /\ rec[r].pc = "status"
    /\ IF ok
       THEN /\ submissions' = SubmissionSetStatus(submissions,
                    rec[r].event.id, rec[r].event.message)
            /\ rec' = [rec EXCEPT ![r].pc = "find"]
       ELSE /\ RecFail(r)
            /\ UNCHANGED submissions
    /\ UNCHANGED <<attachmentDocs, cache, published, ing, ocr, cls, mailbox, polls>>

\* await submission.updateOne({id: submission_id}, {$set: {status: event.message}})
ReconcilerStatus(r, ok) ==
    /\ rec[r].pc = "status"
    /\ IF ok
       THEN /\ submissions' = SubmissionSetStatus(submissions,
                    rec[r].event.data.metadata.submission_id, rec[r].event.message)
            /\ rec' = [rec EXCEPT ![r].pc = "find"]
       ELSE /\ RecFail(r)
            /\ UNCHANGED submissions
    /\ UNCHANGED <<attachmentDocs, cache, published, ing, ocr, cls, mailbox, polls>>

\* const subDoc = await submission.findOne({id: submission_id});
\* if (!subDoc || !subDoc.attachments) return;
ReconcilerFind(r, ok) ==
    /\ rec[r].pc = "find"
    /\ IF ok
       THEN LET k == FirstMatch(submissions, rec[r].event.data.metadata.submission_id)
                return == k = 0 \/ submissions[k].attachments = 0
            IN  rec' = [rec EXCEPT ![r].subDoc = IF k = 0 THEN Null ELSE "found",
                                   ![r].ref = IF k = 0 THEN 0 ELSE submissions[k].attachments,
                                   ![r].pc = IF return THEN "done" ELSE "attach",
                                   ![r].result = IF return THEN "fulfilled" ELSE "pending"]
       ELSE RecFail(r)
    /\ UNCHANGED <<submissions, attachmentDocs, cache, published, ing, ocr, cls, mailbox, polls>>

\* await attachment.updateOne({_id: subDoc.attachments}, {$set: {attachments}})
ReconcilerAttach(r, ok) ==
    /\ rec[r].pc = "attach"
    /\ IF ok
       THEN /\ attachmentDocs' = AttachmentSet(attachmentDocs, rec[r].ref,
                                    rec[r].event.data.metadata.attachments)
            /\ rec' = [rec EXCEPT ![r].pc = "done", ![r].result = "fulfilled"]
       ELSE /\ RecFail(r)
            /\ UNCHANGED attachmentDocs
    /\ UNCHANGED <<submissions, cache, published, ing, ocr, cls, mailbox, polls>>

----------------------------------------------------------------------------
(* Extraction stage: OcrController.handle calls OcrService.processOcr and    *)
(* does not await it                                                       *)

IdleOcr == [pc |-> "idle", message |-> <<>>, engine |-> <<>>, cb |-> <<>>,
            handler |-> "none", result |-> "none"]

\* att.content_type.includes('image') / includes('pdf'), on the content types used
IsImage(ct) == ct \in {"image/png"}
IsPdf(ct) == ct \in {"application/pdf"}

\* What the extraction engine (axios + Tesseract / pdf-parse) does with one
\* attachment: it returns a text, it throws, it settles only after the 60 s of
\* extractTextFromImage's timer ("late"), or it never settles ("hang")
EngineOk(text) == [kind |-> "ok", text |-> text]
EngineError == [kind |-> "error", text |-> Undefined]
EngineLate(text) == [kind |-> "late", text |-> text]
EngineHang == [kind |-> "hang", text |-> Undefined]
Engines == {EngineOk("lorem"), EngineError, EngineLate("lorem"), EngineHang}

\* an OcrObject without its attachment list: attachments.map throws a TypeError
MalformedOcr(m) == "attachments" \notin DOMAIN m.metadata

SetText(att, text) == [att EXCEPT !.text = text]

\* a variant that knows the image family only: a pdf is an unsupported type
OcrBeginImageOnly(att) ==
    IF IsImage(att.content_type)
    THEN [att |-> att, st |-> "running", returned |-> "nothing", result |-> att,
          call |-> "extractTextFromImage", late |-> "no"]
    ELSE [att |-> SetText(att, ""), st |-> "settled", returned |-> "null", result |-> att,
          call |-> "none", late |-> "no"]

\* the map callback up to its first await: an unsupported type runs to the end
\* (att.text = ""; return null), an image or a pdf waits for its engine.
\* returned/result: what the callback has returned (nothing yet, null, an object);
\* call: the extraction method the callback called; late: whether the engine
\* call settled after the callback had given it up
OcrBegin(att) ==
    IF IsImage(att.content_type)
    THEN [att |-> att, st |-> "running", returned |-> "nothing", result |-> att,
          call |-> "extractTextFromImage", late |-> "no"]
    ELSE IF IsPdf(att.content_type)
    THEN [att |-> att, st |-> "running", returned |-> "nothing", result |-> att,
          call |-> "extractTextFromPdf", late |-> "no"]
    ELSE [att |-> SetText(att, ""), st |-> "settled", returned |-> "null", result |-> att,
          call |-> "none", late |-> "no"]

\* the handler is invoked with a message of ocr.init: it starts processOcr
\* and returns at once
OcrDeliver(m, engine) ==
    /\ ocr.pc = "idle"
    /\ ocr' = IF MalformedOcr(m)
              THEN [pc |-> "failed", message |-> m, engine |-> <<>>, cb |-> <<>>,
                    handler |-> "resolved", result |-> "rejected"]
              ELSE [pc |-> "extract", message |-> m, engine |-> engine,
                    cb |-> [i \in 1..Len(m.metadata.attachments) |->
                                OcrBegin(m.metadata.attachments[i])],
                    handler |-> "resolved", result |-> "pending"]
    /\ UNCHANGED <<submissions, attachmentDocs, cache, published, ing, rec, cls, mailbox, polls>>

\* the engine call of attachment i returns its text inside the time budget:
\* att.text = text; return {...att, text}
OcrExtractResolved(i) ==
    /\ ocr.pc = "extract"
    /\ ocr.cb[i].st = "running"
    /\ \/ ocr.engine[i].kind = "ok"
       \/ ocr.engine[i].kind = "late" /\ IsPdf(ocr.cb[i].att.content_type)
                                      /\ ~IsImage(ocr.cb[i].att.content_type)
    /\ LET att == SetText(ocr.cb[i].att, ocr.engine[i].text)
       IN  ocr' = [ocr EXCEPT ![("cb")][i].att = att,
                              ![("cb")][i].st = "settled",
                              ![("cb")][i].returned = "object",
                              ![("cb")][i].result = att]
    /\ UNCHANGED <<submissions, attachmentDocs, cache, published, ing, rec, cls, mailbox, polls>>

\* the engine call of attachment i throws: the catch returns {...att, text: ''}
\* and leaves att as it was
OcrExtractRejected(i) ==
    /\ ocr.pc = "extract"
    /\ ocr.cb[i].st = "running"
    /\ ocr.engine[i].kind = "error"
    /\ ocr' = [ocr EXCEPT ![("cb")][i].st = "settled",
                          ![("cb")][i].returned = "object",
                          ![("cb")][i].result = SetText(ocr.cb[i].att, "")]
    /\ UNCHANGED <<submissions, attachmentDocs, cache, published, ing, rec, cls, mailbox, polls>>

\* the timer of extractTextFromImage wins the race: 'OCR Timeout' is thrown, the
\* catch returns {...att, text: ''}; extractTextFromPdf sets no timer
OcrTimeout(i) ==
    /\ ocr.pc = "extract"
    /\ ocr.cb[i].st = "running"
    /\ IsImage(ocr.cb[i].att.content_type)
    /\ ocr.engine[i].kind \in {"late", "hang"}
    /\ ocr' = [ocr EXCEPT ![("cb")][i].st = "settled",
                          ![("cb")][i].returned = "object",
                          ![("cb")][i].result = SetText(ocr.cb[i].att, "")]
    /\ UNCHANGED <<submissions, attachmentDocs, cache, published, ing, rec, cls, mailbox, polls>>

\* a variant that carries parsedData: what the callbacks returned, nulls dropped
OcrMessageParsed ==
    LET sel == SelectSeq(ocr.cb, LAMBDA c : c.returned = "object")
    IN  [metadata |-> [ocr.message.metadata EXCEPT
            !.attachments = [n \in 1..Len(sel) |-> sel[n].result]]]

\* a variant in which the late text is written to the entry all the same
OcrLateResolveWriting(i) ==
    /\ ocr.pc # "idle"
    /\ i \in 1..Len(ocr.cb)
    /\ ocr.cb[i].call = "extractTextFromImage"
    /\ ocr.cb[i].st = "settled"
    /\ ocr.engine[i].kind = "late"
    /\ ocr.cb[i].late = "no"
    /\ ocr' = [ocr EXCEPT ![("cb")][i].late = "settled",
                          ![("cb")][i].att = SetText(ocr.cb[i].att, ocr.engine[i].text)]
    /\ UNCHANGED <<submissions, attachmentDocs, cache, published, ing, rec, cls, mailbox, polls>>

\* _extractTextFromImage settles after the timer has won the race: Promise.race
\* has already rejected, the text goes nowhere
OcrLateResolve(i) ==
    /\ ocr.pc # "idle"
    /\ i \in 1..Len(ocr.cb)
    /\ ocr.cb[i].call = "extractTextFromImage"
    /\ ocr.cb[i].st = "settled"
    /\ ocr.engine[i].kind = "late"
    /\ ocr.cb[i].late = "no"
    /\ ocr' = [ocr EXCEPT ![("cb")][i].late = "settled"]
    /\ UNCHANGED <<submissions, attachmentDocs, cache, published, ing, rec, cls, mailbox, polls>>

\* the message as it stands: the callbacks change its entries in place
OcrMessage == [metadata |-> [ocr.message.metadata EXCEPT
                    !.attachments = [i \in 1..Len(ocr.cb) |-> ocr.cb[i].att]]]

OcrEvent == Envelope(ocr.message.metadata.id, "ocr_completed", OcrMessage)

OcrFail == ocr' = [ocr EXCEPT !.pc = "failed", !.result = "rejected"]

\* Promise.all has resolved; await redis.set(`ocr:status:${event.id}`, ..., 'EX', 3600)
OcrCache(ok) ==
    /\ ocr.pc = "extract"
    /\ \A i \in 1..Len(ocr.cb) : ocr.cb[i].st = "settled"
    /\ IF ok
       THEN /\ cache' = CacheSet(cache, "ocr:status:" \o ocr.message.metadata.id,
                                 OcrEvent, 3600)
            /\ ocr' = [ocr EXCEPT !.pc = "pub_event"]
       ELSE /\ OcrFail
            /\ UNCHANGED cache
    /\ UNCHANGED <<submissions, attachmentDocs, published, ing, rec, cls, mailbox, polls>>

\* a variant that also writes the extracted list to the submission's Attachment-set
OcrPublishEventWritingStore(ok) ==
    /\ ocr.pc = "pub_event"
    /\ IF ok
       THEN /\ published' = Publish(published, "event.pipeline", OcrEvent)
            /\ attachmentDocs' = AttachmentSet(attachmentDocs,
                    Stored(submissions, attachmentDocs,
                           ocr.message.metadata.submission_id).ref,
                    OcrMessage.metadata.attachments)
            /\ ocr' = [ocr EXCEPT !.pc = "pub_cls"]
       ELSE /\ OcrFail
            /\ UNCHANGED <<published, attachmentDocs>>
    /\ UNCHANGED <<submissions, cache, ing, rec, cls, mailbox, polls>>

\* await kafkaService.publishMessage('event.pipeline', event)
OcrPublishEvent(ok) ==
    /\ ocr.pc = "pub_event"
    /\ IF ok
       THEN /\ published' = Publish(published, "event.pipeline", OcrEvent)
            /\ ocr' = [ocr EXCEPT !.pc = "pub_cls"]
       ELSE /\ OcrFail
            /\ UNCHANGED published
    /\ UNCHANGED <<submissions, attachmentDocs, cache, ing, rec, cls, mailbox, polls>>

\* await kafkaService.publishMessage('classification.init', message)
OcrPublishClassification(ok) ==
    /\ ocr.pc = "pub_cls"
    /\ IF ok
       THEN /\ published' = Publish(published, "classification.init", OcrMessage)
            /\ ocr' = [ocr EXCEPT !.pc = "done", !.result = "fulfilled"]
       ELSE /\ OcrFail
            /\ UNCHANGED published
    /\ UNCHANGED <<submissions, attachmentDocs, cache, ing, rec, cls, mailbox, polls>>

\* the message processOcr publishes when no call fails to publish, for these
\* engine outcomes: the entry is changed in place only where a text was returned
\* in time or the type is unsupported
ExtractedEntry(att, e) ==
    IF ~(IsImage(att.content_type) \/ IsPdf(att.content_type)) THEN SetText(att, "")
    ELSE IF e.kind = "ok" \/ (e.kind = "late" /\ ~IsImage(att.content_type))
         THEN SetText(att, e.text)
         ELSE att

ExtractedPayload(m, engine) ==
    [metadata |-> [m.metadata EXCEPT
        !.attachments = [i \in 1..Len(m.metadata.attachments) |->
                            ExtractedEntry(m.metadata.attachments[i], engine[i])]]]

----------------------------------------------------------------------------
(* Classification stage: ClassificationController.handle calls               *)
(* ClassificationService.processClassification and does not await it       *)

IdleCls == [pc |-> "idle", message |-> <<>>, engine |-> <<>>, cb |-> <<>>,
            handler |-> "none", result |-> "none"]

\* The engine's response text as a sequence of tokens: a code fence with its
\* language tag and newline (```json\n, or a bare ```), a run of prose, or the
\* text of one JSON value. A JSON value is written by its kind ("object",
\* "number", "null") and, for an object, its type and confidence members
\* (Undefined: no such member). A confidence is written as its number literal.
Fence(lang) == [t |-> "fence", s |-> lang, type |-> Undefined, confidence |-> Undefined]
Prose(text) == [t |-> "prose", s |-> text, type |-> Undefined, confidence |-> Undefined]
Json(kind, type, confidence) ==
    [t |-> "json", s |-> kind, type |-> type, confidence |-> confidence]

\* generateContent: it throws, or it returns a response with a text (<<>>: no text)
EngineThrows == [kind |-> "error", text |-> <<>>]
Response(text) == [kind |-> "ok", text |-> text]

\* output.startsWith("```")
StartsWithFence(output) == Len(output) > 0 /\ output[1].t = "fence"

\* a variant that leaves the fences in the text
KeepFences(output) == output

\* output.replace(/```[a-z]*\n?/gi, "").replace(/```$/, "").trim()
StripFences(output) == SelectSeq(output, LAMBDA tok : tok.t # "fence")

\* JSON.parse: the text must be exactly one JSON value
IsJsonText(output) == Len(output) = 1 /\ output[1].t = "json"

Fallback == Json("object", "unknown", "0")

\* ClassificationService.classify, on the engine's behaviour for one text
Classify(e) ==
    IF e.kind = "error" THEN Fallback
    ELSE LET output == IF e.text = <<>> THEN <<Prose("unknown")>> ELSE e.text
             stripped == IF StartsWithFence(output) THEN StripFences(output) ELSE output
         IN  IF IsJsonText(stripped) THEN stripped[1] ELSE Fallback

\* classified.type / classified.confidence: a member of an object, undefined on
\* a number; on null the access throws a TypeError
Throws(classified) == classified.s = "null"
Member(classified, name) ==
    IF classified.s = "object"
    THEN (IF name = "type" THEN classified.type ELSE classified.confidence)
    ELSE Undefined

MalformedCls(m) == "attachments" \notin DOMAIN m.metadata

\* the handler is invoked with a message of classification.init: it starts
\* processClassification and returns at once; every callback awaits classify
ClassificationDeliver(m, engine) ==
    /\ cls.pc = "idle"
    /\ cls' = IF MalformedCls(m)
              THEN [pc |-> "failed", message |-> m, engine |-> <<>>, cb |-> <<>>,
                    handler |-> "resolved", result |-> "rejected"]
              ELSE [pc |-> "classify", message |-> m, engine |-> engine,
                    cb |-> [i \in 1..Len(m.metadata.attachments) |->
                                [att |-> m.metadata.attachments[i], st |-> "running"]],
                    handler |-> "resolved", result |-> "pending"]
    /\ UNCHANGED <<submissions, attachmentDocs, cache, published, ing, rec, ocr, mailbox, polls>>

\* classify returns for attachment i: file.classification = classified.type;
\* file.confidence = classified.confidence. A TypeError here rejects Promise.all:
\* the outer catch throws 'Classification processing failed'. Promise.all does
\* not cancel the callbacks still running: each of them goes on to write its
\* entry of the message in memory after the rejection
ClassificationClassified(i) ==
    /\ cls.pc \in {"classify", "failed"}
    /\ cls.cb[i].st = "running"
    /\ LET classified == Classify(cls.engine[i])
       IN  IF Throws(classified)
           THEN cls' = [cls EXCEPT !.pc = "failed", !.result = "rejected",
                                   ![("cb")][i].st = "threw"]
           ELSE cls' = [cls EXCEPT ![("cb")][i] =
                    [att |-> [cls.cb[i].att EXCEPT
                                !.classification = Member(classified, "type"),
                                !.confidence = Member(classified, "confidence")],
                     st |-> "settled"]]
    /\ UNCHANGED <<submissions, attachmentDocs, cache, published, ing, rec, ocr, mailbox, polls>>

\* the message as it stands: the callbacks change its entries in place
ClassificationMessage == [metadata |-> [cls.message.metadata EXCEPT
                            !.attachments = [i \in 1..Len(cls.cb) |-> cls.cb[i].att]]]

ClassificationEvent ==
    Envelope(cls.message.metadata.id, "classification_completed", ClassificationMessage)

ClsFail == cls' = [cls EXCEPT !.pc = "failed", !.result = "rejected"]

\* Promise.all has resolved; await redis.set(`redis:status:${event.id}`, ...)
ClassificationCache(ok) ==
    /\ cls.pc = "classify"
    /\ \A i \in 1..Len(cls.cb) : cls.cb[i].st = "settled"
    /\ IF ok
       THEN /\ cache' = CacheSet(cache, "redis:status:" \o cls.message.metadata.id,
                                 ClassificationEvent, 0)
            /\ cls' = [cls EXCEPT !.pc = "pub_event"]
       ELSE /\ ClsFail
            /\ UNCHANGED cache
    /\ UNCHANGED <<submissions, attachmentDocs, published, ing, rec, ocr, mailbox, polls>>

\* await kafkaService.publishMessage('event.pipeline', event)
ClassificationPublish(ok) ==
    /\ cls.pc = "pub_event"
    /\ IF ok
       THEN /\ published' = Publish(published, "event.pipeline", ClassificationEvent)
            /\ cls' = [cls EXCEPT !.pc = "done", !.result = "fulfilled"]
       ELSE /\ ClsFail
            /\ UNCHANGED published
    /\ UNCHANGED <<submissions, attachmentDocs, cache, ing, rec, ocr, mailbox, polls>>

\* the message processClassification publishes when no call fails, for these
\* engine behaviours (none of which makes a callback throw)
ClassifiedPayload(m, engine) ==
    [metadata |-> [m.metadata EXCEPT
        !.attachments = [i \in 1..Len(m.metadata.attachments) |->
            [m.metadata.attachments[i] EXCEPT
                !.classification = Member(Classify(engine[i]), "type"),
                !.confidence = Member(Classify(engine[i]), "confidence")]]]]

----------------------------------------------------------------------------
(* Specifications *)

\* the state after construction: an empty store, cache and channel, no handler running
Init ==
    /\ submissions = <<>>
    /\ attachmentDocs = <<>>
    /\ cache = <<>>
    /\ published = <<>>
    /\ ing = <<>>
    /\ rec = [r \in 1..MaxInFlight |-> IdleRec]
    /\ ocr = IdleOcr
    /\ cls = IdleCls
    /\ mailbox = Unread
    /\ polls = <<>>

\* the ingestion stage, its invocations interleaving at their awaits
Next ==
    \/ \E m \in IngestionInputs : IngestionStart(m)
    \/ \E i \in 1..Len(ing), ok \in BOOLEAN : IngestionCreate(i, ok)
    \/ \E i \in 1..Len(ing), ok \in BOOLEAN : IngestionAttach(i, ok)
    \/ \E i \in 1..Len(ing), ok \in BOOLEAN : IngestionLink(i, ok)
    \/ \E i \in 1..Len(ing), ok \in BOOLEAN : IngestionCache(i, ok)
    \/ \E i \in 1..Len(ing), ok \in BOOLEAN : IngestionPublishEvent(i, ok)
    \/ \E i \in 1..Len(ing), ok \in BOOLEAN : IngestionPublishOcr(i, ok)

Spec == Init /\ [][Next]_vars

\* the messages of ocr.init: ingestion's payloads, and one without its list
OcrInputs ==
    {IngestionPayload(Found("id-1", <<AttImage, AttPdf, AttOther>>).metadata),
     IngestionPayload(Found("id-2", <<>>).metadata),
     [metadata |-> [id |-> "id-1", submission_id |-> "id-1"]]}

EnginesFor(m) ==
    IF MalformedOcr(m) THEN {<<>>}
    ELSE [1..Len(m.metadata.attachments) -> Engines]

\* the extraction stage on one message
NextOcr ==
    \/ \E m \in OcrInputs : \E engine \in EnginesFor(m) : OcrDeliver(m, engine)
    \/ \E i \in 1..Len(ocr.cb) : OcrExtractResolved(i)
    \/ \E i \in 1..Len(ocr.cb) : OcrExtractRejected(i)
    \/ \E i \in 1..Len(ocr.cb) : OcrTimeout(i)
    \/ \E i \in 1..Len(ocr.cb) : OcrLateResolve(i)
    \/ \E ok \in BOOLEAN : OcrCache(ok)
    \/ \E ok \in BOOLEAN : OcrPublishEvent(ok)
    \/ \E ok \in BOOLEAN : OcrPublishClassification(ok)

SpecOcr == Init /\ [][NextOcr]_vars

\* the engine's behaviours: an error, no text, prose, a well-formed object, the
\* same inside a code fence, the same after a line of prose, an object without
\* a type member, an object whose confidence is 7, a number, and null
EngineReplies ==
    {EngineThrows,
     Response(<<>>),
     Response(<<Prose("This is an invoice.")>>),
     Response(<<Json("object", "invoice", "0.9")>>),
     Response(<<Fence("json"), Json("object", "invoice", "0.9"), Fence("")>>),
     Response(<<Prose("Here you go:"), Fence("json"), Json("object", "invoice", "0.9"), Fence("")>>),
     Response(<<Json("object", Undefined, "0.9")>>),
     Response(<<Json("object", "invoice", "7")>>),
     Response(<<Json("number", Undefined, Undefined)>>),
     Response(<<Json("null", Undefined, Undefined)>>)}

\* the messages of classification.init: what the extraction stage publishes
\* for ingestion's payloads, and one without its list
ClassificationInputs ==
    {ExtractedPayload(IngestionPayload(Found("id-1", <<AttImage, AttPdf>>).metadata),
                      <<EngineOk("lorem"), EngineError>>),
     IngestionPayload(Found("id-2", <<>>).metadata),
     [metadata |-> [id |-> "id-1", submission_id |-> "id-1"]]}

RepliesFor(m) ==
    IF MalformedCls(m) THEN {<<>>}
    ELSE [1..Len(m.metadata.attachments) -> EngineReplies]

\* the classification stage on one message
NextClassification ==
    \/ \E m \in ClassificationInputs : \E engine \in RepliesFor(m) :
            ClassificationDeliver(m, engine)
    \/ \E i \in 1..Len(cls.cb) : ClassificationClassified(i)
    \/ \E ok \in BOOLEAN : ClassificationCache(ok)
    \/ \E ok \in BOOLEAN : ClassificationPublish(ok)

SpecClassification == Init /\ [][NextClassification]_vars

----------------------------------------------------------------------------
(* The reconciler on a store that ingestion has filled *)

\* the state after the ingestion runs ms, one after another, none failing
RECURSIVE StateAfter(_)
StateAfter(ms) ==
    IF ms = <<>>
    THEN [store |-> <<<<>>, <<>>>>, cache |-> <<>>, published |-> <<>>, ing |-> <<>>]
    ELSE LET before == StateAfter(SubSeq(ms, 1, Len(ms) - 1))
             m == ms[Len(ms)]
             md == m.metadata
             store == IngestOnce(before.store, m)
         IN  [store |-> store,
              cache |-> CacheSet(before.cache, "redis:status:" \o md.id,
                                 IngestionEvent(md), 0),
              published |-> Publish(Publish(before.published, "event.pipeline",
                                            IngestionEvent(md)),
                                    "ocr.init", IngestionPayload(md)),
              ing |-> Append(before.ing,
                        [pc |-> "done", message |-> m, sub |-> Len(store[1]),
                         attch |-> IF Len(md.attachments) > 0 THEN Len(store[2]) ELSE 0,
                         handler |-> "resolved", result |-> "fulfilled"])]

First == Found("id-1", <<AttImage, AttPdf>>)
Second == Found("id-2", <<>>)

\* nothing ingested, one event, two events, one event and its re-delivery
IngestionRuns == {<<>>, <<First>>, <<First, Second>>, <<First, First>>}

InitAfter(ms, slots) ==
    /\ submissions = StateAfter(ms).store[1]
    /\ attachmentDocs = StateAfter(ms).store[2]
    /\ cache = StateAfter(ms).cache
    /\ published = StateAfter(ms).published
    /\ ing = StateAfter(ms).ing
    /\ rec = [r \in slots |-> IdleRec]
    /\ ocr = IdleOcr
    /\ cls = IdleCls
    /\ mailbox = <<>>
    /\ polls = <<>>

\* the three envelopes the stages publish for one event, every engine call
\* succeeding with a well-formed result
PipelineKinds == <<"ingestion_completed", "ocr_completed", "classification_completed">>

PipelineEnvelope(m, k) ==
    LET md == m.metadata
        n == Len(md.attachments)
        ingested == IngestionPayload(md)
        extracted == ExtractedPayload(ingested, [i \in 1..n |-> EngineOk("lorem")])
        classified == ClassifiedPayload(extracted,
                        [i \in 1..n |-> Response(<<Json("object", "invoice", "0.9")>>)])
    IN  Envelope(md.id, PipelineKinds[k],
                 IF k = 1 THEN ingested ELSE IF k = 2 THEN extracted ELSE classified)

\* a variant of the poller's envelope whose submission_id is the event's id
ImapDoneKeyed(m) ==
    Envelope(m.metadata.id, "IMAP_DONE",
             [metadata |-> [m.metadata EXCEPT !.submission_id = m.metadata.id]])

\* the poller's envelope, whose submission_id is the constant "imap done"
ImapDone(m) == Envelope(m.metadata.id, "IMAP_DONE", m)

\* the envelopes of event.pipeline: the stages', the poller's, and one without data
Envelopes ==
    {PipelineEnvelope(First, k) : k \in DOMAIN PipelineKinds}
        \cup {PipelineEnvelope(Second, 2), ImapDone(First),
              [id |-> "id-1", message |-> "ocr_completed"]}

\* the reconciler as the controller runs it: MaxInFlight envelopes, whose
\* updates may all be in flight together
InitReconciler == \E ms \in IngestionRuns : InitAfter(ms, 1..MaxInFlight)

NextReconciler ==
    \/ \E r \in DOMAIN rec, e \in Envelopes :
            rec[r].pc = "idle" /\ ReconcilerDeliver(r, e)
    \/ \E r \in DOMAIN rec, ok \in BOOLEAN : ReconcilerStatus(r, ok)
    \/ \E r \in DOMAIN rec, ok \in BOOLEAN : ReconcilerFind(r, ok)
    \/ \E r \in DOMAIN rec, ok \in BOOLEAN : ReconcilerAttach(r, ok)

SpecReconciler == InitReconciler /\ [][NextReconciler]_vars

\* the schedules in which an envelope is delivered only when no update is in
\* flight: any number of envelopes, handled one after another
NextReconcilerSeq ==
    \/ \E r \in DOMAIN rec, e \in Envelopes :
            /\ Quiet
            /\ \A k \in 1..Len(submissions) : submissions[k].updatedAt < MaxUpdates
            /\ ReconcilerDeliver(r, e)
    \/ \E r \in DOMAIN rec, ok \in BOOLEAN : ReconcilerStatus(r, ok)
    \/ \E r \in DOMAIN rec, ok \in BOOLEAN : ReconcilerFind(r, ok)
    \/ \E r \in DOMAIN rec, ok \in BOOLEAN : ReconcilerAttach(r, ok)

InitReconcilerSeq == \E ms \in IngestionRuns : InitAfter(ms, {1})

SpecReconcilerSeq == InitReconcilerSeq /\ [][NextReconcilerSeq]_vars

\* the reconciler on a store holding two submissions, each with its
\* Attachment-set, and the extraction and classification envelopes of both
Third == Found("id-3", <<AttAnnotated>>)

EnvelopesOfTwo == {PipelineEnvelope(m, k) : m \in {First, Third}, k \in {2, 3}}

InitReconcilerOfTwo == InitAfter(<<First, Third>>, 1..MaxInFlight)

NextReconcilerOfTwo ==
    \/ \E r \in DOMAIN rec, e \in EnvelopesOfTwo :
            rec[r].pc = "idle" /\ ReconcilerDeliver(r, e)
    \/ \E r \in DOMAIN rec, ok \in BOOLEAN : ReconcilerStatus(r, ok)
    \/ \E r \in DOMAIN rec, ok \in BOOLEAN : ReconcilerFind(r, ok)
    \/ \E r \in DOMAIN rec, ok \in BOOLEAN : ReconcilerAttach(r, ok)

SpecReconcilerOfTwo == InitReconcilerOfTwo /\ [][NextReconcilerOfTwo]_vars

\* one submission's three envelopes delivered to the handler in pipeline order
InitEndToEnd == InitAfter(<<First>>, DOMAIN PipelineKinds)

NextEndToEnd ==
    \/ \E k \in DOMAIN PipelineKinds :
            /\ rec[k].pc = "idle"
            /\ k > 1 => rec[k - 1].pc # "idle"
            /\ ReconcilerDeliver(k, PipelineEnvelope(First, k))
    \/ \E r \in DOMAIN rec, ok \in BOOLEAN : ReconcilerStatus(r, ok)
    \/ \E r \in DOMAIN rec, ok \in BOOLEAN : ReconcilerFind(r, ok)
    \/ \E r \in DOMAIN rec, ok \in BOOLEAN : ReconcilerAttach(r, ok)

SpecEndToEnd == InitEndToEnd /\ [][NextEndToEnd]_vars

\* the extraction stage or the classification stage handling one message, on a
\* store that ingestion has filled
InitStages == \E ms \in IngestionRuns : InitAfter(ms, 1..MaxInFlight)

NextStages ==
    \/ \E m \in OcrInputs : \E engine \in EnginesFor(m) :
            cls.pc = "idle" /\ OcrDeliver(m, engine)
    \/ \E i \in 1..Len(ocr.cb) : OcrExtractResolved(i)
    \/ \E i \in 1..Len(ocr.cb) : OcrExtractRejected(i)
    \/ \E i \in 1..Len(ocr.cb) : OcrTimeout(i)
    \/ \E i \in 1..Len(ocr.cb) : OcrLateResolve(i)
    \/ \E ok \in BOOLEAN : OcrCache(ok)
    \/ \E ok \in BOOLEAN : OcrPublishEvent(ok)
    \/ \E ok \in BOOLEAN : OcrPublishClassification(ok)
    \/ \E m \in ClassificationInputs : \E engine \in RepliesFor(m) :
            ocr.pc = "idle" /\ ClassificationDeliver(m, engine)
    \/ \E i \in 1..Len(cls.cb) : ClassificationClassified(i)
    \/ \E ok \in BOOLEAN : ClassificationCache(ok)
    \/ \E ok \in BOOLEAN : ClassificationPublish(ok)

SpecStages == InitStages /\ [][NextStages]_vars

\* The three stages composed over the channel: ingestion handles each event of
\* submission.found once, the extraction stage handles a message that ingestion
\* published to ocr.init, the classification stage one that the extraction
\* stage published to classification.init.

\* what the cache holds when the pipeline starts: nothing, the poller's
\* snapshot of the event (redis.set of the IMAP_DONE envelope), or the
\* snapshots that an earlier run of the stages left under the same keys
Earlier == Found("id-0", <<AttOther>>)

CacheSeeds ==
    {<<>>,
     CacheSet(<<>>, "redis:status:id-1", ImapDone(First), 0),
     CacheSet(CacheSet(CacheSet(<<>>,
                "redis:status:id-0", PipelineEnvelope(Earlier, 3), 0),
                "redis:status:id-1", PipelineEnvelope(First, 3), 0),
                "ocr:status:id-1", PipelineEnvelope(First, 2), 3600)}

PipelineInputs == {First, Second}

\* the classification engine's behaviours used in the composed pipeline
PipelineReplies ==
    {Response(<<Json("object", "invoice", "0.9")>>),
     Response(<<Prose("This is an invoice.")>>),
     Response(<<Json("null", Undefined, Undefined)>>)}

InitPipeline ==
    /\ submissions = <<>>
    /\ attachmentDocs = <<>>
    /\ cache \in CacheSeeds
    /\ published = <<>>
    /\ ing = <<>>
    /\ rec = [r \in 1..MaxInFlight |-> IdleRec]
    /\ ocr = IdleOcr
    /\ cls = IdleCls
    /\ mailbox = <<>>
    /\ polls = <<>>

\* a message of submission.found that no invocation has been given yet
PipelineIngestionStart(m) ==
    /\ \A i \in 1..Len(ing) : ing[i].message # m
    /\ IngestionStart(m)

\* the positions of a topic's messages in the channel
Inbox(topic) == {n \in 1..Len(published) : published[n].topic = topic}

\* a message of ocr.init reaches the extraction stage's handler
PipelineOcrDeliver(n, engine) ==
    /\ n \in Inbox("ocr.init")
    /\ OcrDeliver(published[n].message, engine)

\* a message of classification.init reaches the classification stage's handler
PipelineClassificationDeliver(n, engine) ==
    /\ n \in Inbox("classification.init")
    /\ ClassificationDeliver(published[n].message, engine)

NextPipeline ==
    \/ \E m \in PipelineInputs : PipelineIngestionStart(m)
    \/ \E i \in 1..Len(ing), ok \in BOOLEAN : IngestionCreate(i, ok)
    \/ \E i \in 1..Len(ing), ok \in BOOLEAN : IngestionAttach(i, ok)
    \/ \E i \in 1..Len(ing), ok \in BOOLEAN : IngestionLink(i, ok)
    \/ \E i \in 1..Len(ing), ok \in BOOLEAN : IngestionCache(i, ok)
    \/ \E i \in 1..Len(ing), ok \in BOOLEAN : IngestionPublishEvent(i, ok)
    \/ \E i \in 1..Len(ing), ok \in BOOLEAN : IngestionPublishOcr(i, ok)
    \/ \E n \in Inbox("ocr.init") :
            \E engine \in EnginesFor(published[n].message) : PipelineOcrDeliver(n, engine)
    \/ \E i \in 1..Len(ocr.cb) : OcrExtractResolved(i)
    \/ \E i \in 1..Len(ocr.cb) : OcrExtractRejected(i)
    \/ \E i \in 1..Len(ocr.cb) : OcrTimeout(i)
    \/ \E i \in 1..Len(ocr.cb) : OcrLateResolve(i)
    \/ \E ok \in BOOLEAN : OcrCache(ok)
    \/ \E ok \in BOOLEAN : OcrPublishEvent(ok)
    \/ \E ok \in BOOLEAN : OcrPublishClassification(ok)
    \/ \E n \in Inbox("classification.init") :
            \E engine \in [1..Len(published[n].message.metadata.attachments)
                                -> PipelineReplies] : PipelineClassificationDeliver(n, engine)
    \/ \E i \in 1..Len(cls.cb) : ClassificationClassified(i)
    \/ \E ok \in BOOLEAN : ClassificationCache(ok)
    \/ \E ok \in BOOLEAN : ClassificationPublish(ok)

SpecPipeline == InitPipeline /\ [][NextPipeline]_vars

\* One event carried through the three stages and the reconciler, no call
\* failing and every engine answering well: the event is ingested, each stage
\* is given the message its predecessor published, and the reconciler is given
\* each envelope of event.pipeline once, its updates running together.
FlowInputs == {First, Second}

InitFlow ==
    /\ submissions = <<>>
    /\ attachmentDocs = <<>>
    /\ cache = <<>>
    /\ published = <<>>
    /\ ing = <<>>
    /\ rec = [r \in DOMAIN PipelineKinds |-> IdleRec]
    /\ ocr = IdleOcr
    /\ cls = IdleCls
    /\ mailbox = <<>>
    /\ polls = <<>>

\* the envelope of kind k reaches the reconciler's handler
FlowReconcilerDeliver(k, n) ==
    /\ n \in Inbox("event.pipeline")
    /\ published[n].message.message = PipelineKinds[k]
    /\ rec[k].pc = "idle"
    /\ ReconcilerDeliver(k, published[n].message)

NextFlow ==
    \/ \E m \in FlowInputs : Len(ing) = 0 /\ IngestionStart(m)
    \/ \E i \in 1..Len(ing) : IngestionCreate(i, TRUE)
    \/ \E i \in 1..Len(ing) : IngestionAttach(i, TRUE)
    \/ \E i \in 1..Len(ing) : IngestionLink(i, TRUE)
    \/ \E i \in 1..Len(ing) : IngestionCache(i, TRUE)
    \/ \E i \in 1..Len(ing) : IngestionPublishEvent(i, TRUE)
    \/ \E i \in 1..Len(ing) : IngestionPublishOcr(i, TRUE)
    \/ \E n \in Inbox("ocr.init") :
            PipelineOcrDeliver(n, [i \in 1..Len(published[n].message.metadata.attachments)
                                        |-> EngineOk("lorem")])
    \/ \E i \in 1..Len(ocr.cb) : OcrExtractResolved(i)
    \/ OcrCache(TRUE)
    \/ OcrPublishEvent(TRUE)
    \/ OcrPublishClassification(TRUE)
    \/ \E n \in Inbox("classification.init") :
            PipelineClassificationDeliver(n,
                [i \in 1..Len(published[n].message.metadata.attachments)
                    |-> Response(<<Json("object", "invoice", "0.9")>>)])
    \/ \E i \in 1..Len(cls.cb) : ClassificationClassified(i)
    \/ ClassificationCache(TRUE)
    \/ ClassificationPublish(TRUE)
    \/ \E k \in DOMAIN rec, n \in 1..Len(published) : FlowReconcilerDeliver(k, n)
    \/ \E r \in DOMAIN rec : ReconcilerStatus(r, TRUE)
    \/ \E r \in DOMAIN rec : ReconcilerFind(r, TRUE)
    \/ \E r \in DOMAIN rec : ReconcilerAttach(r, TRUE)

\* every handler and every awaited call that can go on does go on
FairSpecFlow == InitFlow /\ [][NextFlow]_vars /\ WF_vars(NextFlow)

\* the extraction stage under the event loop's scheduling: a callback that can
\* run does run, an engine call settles as its behaviour says, a timer fires
FairSpecOcr == Init /\ [][NextOcr]_vars /\ WF_vars(NextOcr)

----------------------------------------------------------------------------
(* Mailbox poller: LambdaService.handleCron, run by the scheduler every 30 s  *)
(* whether or not the previous run has returned, and by manualPoll           *)

\* what extractAttachments returns for the message with this uid
MailAttachments(u) == IF u % 2 = 1 THEN <<AttImage, AttPdf>> ELSE <<>>

\* crypto.randomBytes(16).toString('hex'): a value of its own for every call
PollId(p) == CASE p = 1 -> "id-1" [] p = 2 -> "id-2" [] OTHER -> "id-3"

\* the IngestionObject that poll p builds for its message
PollIngestion(p) == Found(polls[p].id, MailAttachments(polls[p].uid))

\* handleCron is invoked. uid: the message the poll works on; processedUids:
\* the local list of processMessages; steps and error are history: the calls
\* made for the message, and whether its catch block ran; thrown: an error is
\* on its way out of handleCron, whose catch rethrows it: the call rejects
HandleCron ==
    /\ Len(polls) < MaxPolls
    /\ polls' = Append(polls, [pc |-> "search", uid |-> 0, id |-> Undefined,
                               processedUids |-> <<>>, steps |-> <<>>,
                               error |-> FALSE, thrown |-> FALSE])
    /\ UNCHANGED <<submissions, attachmentDocs, cache, published, ing, rec, ocr, cls,
                   mailbox>>

\* what connect, mailboxOpen and search come to: search resolves the list of
\* unread uids, search resolves a falsy value, or one of the three rejects
SearchOutcomes == {"list", "falsy", "rejects"}

\* client.connect(), client.mailboxOpen('INBOX'), client.search({seen: false});
\* !searchResults || searchResults.length === 0: return;
\* searchResults.reverse().slice(0, 1): the newest unread message.
\* "rejects": the catch logs and rethrows, the poll is over with nothing fetched
PollSearch(p, res) ==
    /\ polls[p].pc = "search"
    /\ LET unseen == {u \in DOMAIN mailbox : ~mailbox[u]}
       IN  IF res = "rejects"
           THEN polls' = [polls EXCEPT ![p].pc = "done", ![p].thrown = TRUE]
           ELSE IF res = "falsy" \/ unseen = {}
           THEN polls' = [polls EXCEPT ![p].pc = "done"]
           ELSE polls' = [polls EXCEPT ![p].pc = "fetch",
                            ![p].uid = CHOOSE u \in unseen : \A v \in unseen : v <= u]
    /\ UNCHANGED <<submissions, attachmentDocs, cache, published, ing, rec, ocr, cls,
                   mailbox>>

\* what the fetch of the message comes to: the message is yielded and parsed,
\* it is yielded and simpleParser or extractAttachments throws, or the
\* iterator of client.fetch rejects
FetchOutcomes == {"message", "parse_throws", "rejects"}

\* the outer catch of processMessages: it logs, marks the uids processed so far
\* and throws the error on
PollOuterCatch(poll) ==
    [poll EXCEPT !.pc = IF poll.processedUids = <<>> THEN "done" ELSE "mark",
                 !.thrown = TRUE]

\* client.fetch yields the message with its flags; a message flagged \Seen is
\* skipped; simpleParser and extractAttachments run, and the id is drawn.
\* "parse_throws": the catch of the message logs it, the loop goes on.
\* "rejects": the iterator rejects, which goes to the outer catch
PollFetch(p, res) ==
    /\ polls[p].pc = "fetch"
    /\ IF res = "rejects"
       THEN polls' = [polls EXCEPT ![p] = PollOuterCatch(@)]
       ELSE IF mailbox[polls[p].uid]
       THEN polls' = [polls EXCEPT ![p].pc = "next"]
       ELSE IF res = "message"
       THEN polls' = [polls EXCEPT ![p].pc = "pub_event", ![p].id = PollId(p)]
       ELSE polls' = [polls EXCEPT ![p].pc = "next", ![p].error = TRUE]
    /\ UNCHANGED <<submissions, attachmentDocs, cache, published, ing, rec, ocr, cls,
                   mailbox>>

\* await kafkaService.publishMessage('event.pipeline', event)
PollPublishEvent(p, ok) ==
    /\ polls[p].pc = "pub_event"
    /\ IF ok
       THEN /\ published' = Publish(published, "event.pipeline", ImapDone(PollIngestion(p)))
            /\ polls' = [polls EXCEPT ![p].pc = "pub_found",
                                      ![p].steps = Append(@, "event.pipeline")]
       ELSE /\ polls' = [polls EXCEPT ![p].pc = "next", ![p].error = TRUE]
            /\ UNCHANGED published
    /\ UNCHANGED <<submissions, attachmentDocs, cache, ing, rec, ocr, cls, mailbox>>

\* await kafkaService.publishMessage('submission.found', ingestion)
PollPublishFound(p, ok) ==
    /\ polls[p].pc = "pub_found"
    /\ IF ok
       THEN /\ published' = Publish(published, "submission.found", PollIngestion(p))
            /\ polls' = [polls EXCEPT ![p].pc = "cache",
                                      ![p].steps = Append(@, "submission.found")]
       ELSE /\ polls' = [polls EXCEPT ![p].pc = "next", ![p].error = TRUE]
            /\ UNCHANGED published
    /\ UNCHANGED <<submissions, attachmentDocs, cache, ing, rec, ocr, cls, mailbox>>

\* a variant that lists the message as processed although redis.set threw
PollCacheLenient(p, ok) ==
    /\ polls[p].pc = "cache"
    /\ IF ok
       THEN /\ cache' = CacheSet(cache, "redis:status:" \o polls[p].id,
                                 ImapDone(PollIngestion(p)), 0)
            /\ polls' = [polls EXCEPT ![p].pc = "next",
                                      ![p].steps = Append(@, "redis.set"),
                                      ![p].processedUids = Append(@, polls[p].uid)]
       ELSE /\ polls' = [polls EXCEPT ![p].pc = "next", ![p].error = TRUE,
                                      ![p].processedUids = Append(@, polls[p].uid)]
            /\ UNCHANGED cache
    /\ UNCHANGED <<submissions, attachmentDocs, published, ing, rec, ocr, cls, mailbox>>

\* await redis.set(`redis:status:${id}`, JSON.stringify(event));
\* processedUids.push(msg.uid). not ok: the catch of the message logs it
PollCache(p, ok) ==
    /\ polls[p].pc = "cache"
    /\ IF ok
       THEN /\ cache' = CacheSet(cache, "redis:status:" \o polls[p].id,
                                 ImapDone(PollIngestion(p)), 0)
            /\ polls' = [polls EXCEPT ![p].pc = "next",
                                      ![p].steps = Append(@, "redis.set"),
                                      ![p].processedUids = Append(@, polls[p].uid)]
       ELSE /\ polls' = [polls EXCEPT ![p].pc = "next", ![p].error = TRUE]
            /\ UNCHANGED cache
    /\ UNCHANGED <<submissions, attachmentDocs, published, ing, rec, ocr, cls, mailbox>>

\* the body of the loop is over and the iterator is asked for the next message:
\* it ends, and after the loop an empty list of processed uids ends the poll,
\* any other is marked. not ok: it rejects, which goes to the outer catch
PollNext(p, ok) ==
    /\ polls[p].pc = "next"
    /\ IF ok
       THEN polls' = [polls EXCEPT
                ![p].pc = IF polls[p].processedUids = <<>> THEN "done" ELSE "mark"]
       ELSE polls' = [polls EXCEPT ![p] = PollOuterCatch(@)]
    /\ UNCHANGED <<submissions, attachmentDocs, cache, published, ing, rec, ocr, cls,
                   mailbox>>

\* the messages of the list get the \Seen flag
MarkSeen(box, uids) ==
    [u \in DOMAIN box |-> box[u] \/ \E n \in 1..Len(uids) : uids[n] = u]

\* markMessagesAsSeen: client.messageFlagsAdd({uid}, ['\\Seen']), after which
\* client.idle() is awaited; not ok: it throws, and the catch tries each uid
\* again
PollMark(p, ok) ==
    /\ polls[p].pc = "mark"
    /\ IF ok
       THEN /\ mailbox' = MarkSeen(mailbox, polls[p].processedUids)
            /\ polls' = [polls EXCEPT ![p].pc = "idle"]
       ELSE /\ polls' = [polls EXCEPT ![p].pc = "fallback"]
            /\ UNCHANGED mailbox
    /\ UNCHANGED <<submissions, attachmentDocs, cache, published, ing, rec, ocr, cls>>

\* await client.idle(), in the same try: it resolves when the server or another
\* command ends IDLE, and until then the poll has not returned. not ok: it
\* rejects, and the catch adds the flag again for each uid
PollIdle(p, ok) ==
    /\ polls[p].pc = "idle"
    /\ polls' = [polls EXCEPT ![p].pc = IF ok THEN "done" ELSE "fallback"]
    /\ UNCHANGED <<submissions, attachmentDocs, cache, published, ing, rec, ocr, cls,
                   mailbox>>

\* the fallback's messageFlagsAdd per uid; not ok: it throws too, which is logged
PollFallback(p, ok) ==
    /\ polls[p].pc = "fallback"
    /\ mailbox' = IF ok THEN MarkSeen(mailbox, polls[p].processedUids) ELSE mailbox
    /\ polls' = [polls EXCEPT ![p].pc = "done"]
    /\ UNCHANGED <<submissions, attachmentDocs, cache, published, ing, rec, ocr, cls>>

\* the poller alone: polls start at any time and interleave at their awaits
NextPoller ==
    \/ HandleCron
    \/ \E p \in 1..Len(polls), res \in SearchOutcomes : PollSearch(p, res)
    \/ \E p \in 1..Len(polls), res \in FetchOutcomes : PollFetch(p, res)
    \/ \E p \in 1..Len(polls), ok \in BOOLEAN : PollPublishEvent(p, ok)
    \/ \E p \in 1..Len(polls), ok \in BOOLEAN : PollPublishFound(p, ok)
    \/ \E p \in 1..Len(polls), ok \in BOOLEAN : PollCache(p, ok)
    \/ \E p \in 1..Len(polls), ok \in BOOLEAN : PollNext(p, ok)
    \/ \E p \in 1..Len(polls), ok \in BOOLEAN : PollMark(p, ok)
    \/ \E p \in 1..Len(polls), ok \in BOOLEAN : PollIdle(p, ok)
    \/ \E p \in 1..Len(polls), ok \in BOOLEAN : PollFallback(p, ok)

SpecPoller == Init /\ [][NextPoller]_vars

----------------------------------------------------------------------------
(* Claims *)

Sid(r) == rec[r].event.data.metadata.submission_id
Handled(r) == rec[r].pc = "done"

\* C1: running ingestion twice with the same event leaves the store as one run
\* does: one Submission with that id and one Attachment-set.
C1_IdempotentIngestion ==
    \A i, j \in 1..Len(ing) :
        (/\ i # j
         /\ ing[i].message = ing[j].message
         /\ \A k \in 1..Len(ing) : ing[k].pc = "done")
        => /\ Cardinality({k \in 1..Len(submissions) :
                            submissions[k].id = ing[i].message.metadata.id}) = 1
           /\ Len(ing) = 2 =>
                <<submissions, attachmentDocs>> = IngestOnce(<<<<>>, <<>>>>, ing[i].message)

\* C2: once processOcr has started on a message, whatever one attachment's
\* extraction call does (fail, or hang forever, image or pdf), processOcr
\* eventually ends: it has published to event.pipeline and classification.init,
\* or a cache or channel call failed.
C2_AttachmentIsolation == (ocr.pc = "extract") ~> (ocr.pc \in {"done", "failed"})

\* C3: after an envelope for a submission that has an Attachment-set was handled
\* (the envelopes handled one after another), the stored entries are those of
\* that envelope's list, as the schema stores them, whatever was stored before.
C3_FullReplace ==
    \A r \in DOMAIN rec :
        (Handled(r) /\ rec[r].pre.found /\ rec[r].pre.ref # 0)
        => Stored(submissions, attachmentDocs, Sid(r)).attachments
                = CastAttachments(rec[r].event.data.metadata.attachments)

\* an envelope without text was handled after the store held extracted text:
\* the text is gone, not merged
C3_Witness ==
    \E r \in DOMAIN rec :
        /\ Handled(r) /\ rec[r].pre.found /\ rec[r].pre.ref # 0
        /\ \E i \in 1..Len(rec[r].pre.attachments) :
            /\ rec[r].pre.attachments[i].text = "lorem"
            /\ Stored(submissions, attachmentDocs, Sid(r)).attachments[i].text = Null

\* C4: once the status write of an envelope for an existing submission is done
\* (the envelopes handled one after another), the stored status is the
\* envelope's kind, whatever it was before.
C4_StatusOverwrite ==
    \A r \in DOMAIN rec :
        (rec[r].pc \in {"find", "attach", "done"} /\ rec[r].pre.found)
        => Stored(submissions, attachmentDocs, Sid(r)).status = rec[r].event.message

\* an ingestion-stage envelope handled when the status was classification_completed
\* has set the status back
C4_Witness ==
    \E r \in DOMAIN rec :
        /\ Handled(r)
        /\ rec[r].pre.found
        /\ rec[r].pre.status = "classification_completed"
        /\ rec[r].event.message = "ingestion_completed"
        /\ Stored(submissions, attachmentDocs, Sid(r)).status = "ingestion_completed"

\* C5: no step of an update whose submission id matches no stored Submission
\* changes the store; the update raises no error of its own (only a failing store
\* call rejects it) and otherwise ends fulfilled.
C5_MissingSubmissionNoOp ==
    [][\A r \in DOMAIN rec :
        (Running(r) /\ ~rec[r].pre.found)
        => /\ <<submissions, attachmentDocs>>' = <<submissions, attachmentDocs>>
           /\ rec'[r].error \in {"none", "MongoError"}
           /\ rec'[r].pc \in {"find", "done", "failed"}
           /\ rec'[r].pc = "failed" <=> rec'[r].error = "MongoError"
           /\ rec'[r].pc = "done" => rec'[r].result = "fulfilled"]_vars

\* an update for an unknown id has ended fulfilled, findOne having returned null
C5_Witness ==
    \E r \in DOMAIN rec :
        /\ Handled(r) /\ rec[r].result = "fulfilled"
        /\ ~rec[r].pre.found /\ rec[r].subDoc = Null
        /\ FirstMatch(submissions, Sid(r)) = 0

\* C6: once the handler has been given the three envelopes of a submission in
\* pipeline order and the three updates have ended, the stored status is
\* classification_completed and every stored entry has text, classification and
\* confidence.
C6_EndToEnd ==
    (\A k \in DOMAIN rec : Handled(k))
    => LET now == Stored(submissions, attachmentDocs, First.metadata.id)
       IN  /\ now.status = "classification_completed"
           /\ \A i \in 1..Len(now.attachments) :
                /\ now.attachments[i].text # Null
                /\ now.attachments[i].classification # Null
                /\ now.attachments[i].confidence # Null

\* a well-formed reply: a text that is, code fences apart, one JSON object with
\* a type and a confidence
WellFormed(e) ==
    /\ e.kind = "ok"
    /\ LET body == IF StartsWithFence(e.text) THEN StripFences(e.text) ELSE e.text
       IN  /\ IsJsonText(body)
           /\ body[1].s = "object"
           /\ body[1].type # Undefined
           /\ body[1].confidence # Undefined

\* C7: in the payload the classification stage publishes, every attachment whose
\* engine outcome is not a well-formed {type, confidence} object has
\* classification "unknown" and confidence 0.
C7_ClassificationFallback ==
    \A k \in 1..Len(published) :
        published[k].topic = "event.pipeline"
        => LET list == published[k].message.data.metadata.attachments
           IN  \A i \in 1..Len(list) :
                ~WellFormed(cls.engine[i])
                => list[i].classification = "unknown" /\ list[i].confidence = "0"

\* the extraction of attachment i ended in the catch: the engine threw, or the
\* image timer fired
ExtractionFailed(i) ==
    \/ ocr.engine[i].kind = "error"
    \/ ocr.engine[i].kind \in {"late", "hang"} /\ IsImage(ocr.cb[i].att.content_type)

\* C8: in the payloads the extraction stage publishes, every attachment whose
\* extraction timed out or threw has text "", and every one whose extraction
\* succeeded has the extracted text.
C8_ExtractionFallbackValue ==
    \A k \in 1..Len(published) :
        LET m == published[k].message
            list == IF published[k].topic = "event.pipeline"
                    THEN m.data.metadata.attachments ELSE m.metadata.attachments
        IN  \A i \in 1..Len(list) :
                (IsImage(list[i].content_type) \/ IsPdf(list[i].content_type))
                => IF ExtractionFailed(i) THEN list[i].text = ""
                   ELSE list[i].text = ocr.engine[i].text

\* C9: in every stage, when the service's processing fails, the handler of the
\* topic fails as well (so the message is not taken as consumed).
C9_StageFailuresSurfaced ==
    /\ \A i \in 1..Len(ing) : ing[i].result = "rejected" => ing[i].handler = "rejected"
    /\ \A r \in DOMAIN rec : rec[r].result = "rejected" => rec[r].handler = "rejected"
    /\ ocr.result = "rejected" => ocr.handler = "rejected"
    /\ cls.result = "rejected" => cls.handler = "rejected"

\* C10: when two envelopes for the same submission (one that has an
\* Attachment-set) were handled concurrently, the stored status and the stored
\* entries come from one and the same envelope.
C10_AtomicUpdate ==
    \A r1, r2 \in DOMAIN rec :
        (/\ r1 # r2
         /\ \A r \in DOMAIN rec : rec[r].pc \in {"idle", "done"}
         /\ Handled(r1) /\ Handled(r2)
         /\ Sid(r1) = Sid(r2)
         /\ rec[r1].pre.found /\ rec[r1].pre.ref # 0)
        => \E r \in DOMAIN rec :
            /\ Handled(r) /\ Sid(r) = Sid(r1)
            /\ Stored(submissions, attachmentDocs, Sid(r1)).status = rec[r].event.message
            /\ Stored(submissions, attachmentDocs, Sid(r1)).attachments
                    = CastAttachments(rec[r].event.data.metadata.attachments)

\* C11: no ingestion step changes the status or the attachments reference of a
\* stored Submission, except the link step of the invocation that created it
\* (any other invocation that does so is a later one: it created its own
\* Submission afterwards).
C11_IngestionLeavesStoredSubmissions ==
    [][\A k \in 1..Len(submissions) :
        (\/ submissions'[k].status # submissions[k].status
         \/ submissions'[k].attachments # submissions[k].attachments)
        => \E i \in 1..Len(ing) :
            ing[i].sub = k /\ ing[i].pc = "link" /\ ing'[i].pc = "cache"]_vars

\* the invocations of ingestion have all ended, fulfilled or rejected
IngestionQuiet == \A i \in 1..Len(ing) : ing[i].pc \in {"done", "failed"}

\* C13: when no ingestion invocation is in progress, every stored Attachment-set
\* is referenced by exactly one Submission.
C13_ExclusiveOwnership ==
    IngestionQuiet
    => \A d \in 1..Len(attachmentDocs) :
        Cardinality({k \in 1..Len(submissions) : submissions[k].attachments = d}) = 1

\* C16: after a successful ingestion of an event with an empty attachment list,
\* the Submission has the status "ingestion done" and no attachments.
C16_NoAttachmentsDone ==
    \A i \in 1..Len(ing) :
        (ing[i].pc = "done" /\ Len(ing[i].message.metadata.attachments) = 0)
        => /\ submissions[ing[i].sub].status = "ingestion done"
           /\ submissions[ing[i].sub].attachments = 0

\* C15: the Submission an invocation creates has the status "ingestion in
\* progress" and no attachments; when an invocation on a non-empty list ends
\* fulfilled, the Submission with the event's id has the status "ingestion
\* done" and references an Attachment-set that an ingestion of this event
\* created, holding the event's entries in order.
C15_IngestionWithAttachments ==
    [][\A i \in 1..Len(ing) :
        LET md == ing[i].message.metadata IN
        /\ (ing[i].pc = "create" /\ ing'[i].sub # 0)
            => /\ ing'[i].sub = Len(submissions) + 1
               /\ submissions'[ing'[i].sub].id = md.id
               /\ submissions'[ing'[i].sub].status = "ingestion in progress"
               /\ submissions'[ing'[i].sub].attachments = 0
        /\ (ing[i].pc # "done" /\ ing'[i].pc = "done" /\ Len(md.attachments) > 0)
            => LET k == FirstMatch(submissions', md.id) IN
               /\ k # 0
               /\ submissions'[k].status = "ingestion done"
               /\ \E j \in 1..Len(ing) :
                    /\ ing'[j].message = ing[i].message
                    /\ ing'[j].attch # 0
                    /\ submissions'[k].attachments = ing'[j].attch
               /\ attachmentDocs'[submissions'[k].attachments].attachments
                    = CastAttachments(md.attachments)]_vars

\* an ingestion of two attachments has ended fulfilled: the Submission is
\* linked to the Attachment-set it created, which holds the two entries
C15_Witness ==
    \E i \in 1..Len(ing) :
        /\ ing[i].pc = "done" /\ ing[i].result = "fulfilled"
        /\ Len(ing[i].message.metadata.attachments) = 2
        /\ submissions[ing[i].sub].status = "ingestion done"
        /\ submissions[ing[i].sub].attachments = ing[i].attch
        /\ Len(attachmentDocs[ing[i].attch].attachments) = 2

\* C17: when the Submission cannot be created, the invocation ends rejected in
\* that step, creating no Attachment-set, writing nothing to the cache and
\* publishing nothing; an invocation that has failed takes no further step.
C17_CreateFailureNoEffect ==
    [][\A i \in 1..Len(ing) :
        /\ (ing[i].pc = "create" /\ ing'[i] # ing[i] /\ submissions' = submissions)
            => /\ ing'[i].pc = "failed"
               /\ ing'[i].result = "rejected"
               /\ ing'[i].handler = "rejected"
               /\ attachmentDocs' = attachmentDocs
               /\ cache' = cache
               /\ published' = published
        /\ ing[i].pc = "failed" => ing'[i] = ing[i]]_vars

\* the create of an event with attachments has failed: the store, the cache and
\* the channel are empty
C17_Witness ==
    \E i \in 1..Len(ing) :
        /\ ing[i].pc = "failed" /\ ing[i].sub = 0 /\ ing[i].result = "rejected"
        /\ Len(ing[i].message.metadata.attachments) > 0
        /\ submissions = <<>> /\ attachmentDocs = <<>>
        /\ cache = <<>> /\ published = <<>>

\* out is the list reduced to filename, content type and location, in order
Reduced(list, out) ==
    /\ Len(out) = Len(list)
    /\ \A n \in 1..Len(list) :
        /\ out[n].filename = list[n].filename
        /\ out[n].content_type = list[n].content_type
        /\ out[n].url = list[n].url
        /\ out[n].text = Undefined
        /\ out[n].classification = Undefined
        /\ out[n].confidence = Undefined

\* C18: an invocation publishes in two steps only, each taken once on the way to
\* success: one envelope of kind ingestion_completed to event.pipeline, then one
\* message to ocr.init, both with the input's list reduced to filename, content
\* type and location.
C18_IngestionPublishes ==
    [][\A i \in 1..Len(ing) :
        LET md == ing[i].message.metadata
            last == published'[Len(published')]
            appended == /\ Len(published') = Len(published) + 1
                        /\ SubSeq(published', 1, Len(published)) = published
            toEvent == ing[i].pc = "pub_event" /\ ing'[i].pc = "pub_ocr"
            toOcr == ing[i].pc = "pub_ocr" /\ ing'[i].pc = "done"
        IN  /\ toEvent => /\ appended
                          /\ last.topic = "event.pipeline"
                          /\ last.message.id = md.id
                          /\ last.message.message = "ingestion_completed"
                          /\ Reduced(md.attachments,
                                     last.message.data.metadata.attachments)
            /\ toOcr => /\ appended
                        /\ last.topic = "ocr.init"
                        /\ Reduced(md.attachments, last.message.metadata.attachments)
            /\ (ing'[i] # ing[i] /\ ~toEvent /\ ~toOcr) => published' = published
            /\ ing[i].pc = "done" => ing'[i] = ing[i]]_vars

\* the event whose entry carried text, classification and confidence was
\* ingested: the channel holds its envelope and its ocr.init message, and no more
C18_Witness ==
    /\ Len(ing) = 1
    /\ ing[1].pc = "done"
    /\ ing[1].message.metadata.attachments = <<AttAnnotated>>
    /\ Len(published) = 2
    /\ published[1].topic = "event.pipeline"
    /\ published[2].topic = "ocr.init"
    /\ published[2].message.metadata.attachments[1].text = Undefined

\* C12: no step of the extraction stage or of the classification stage changes
\* the Submission collection or the Attachment collection.
C12_StagesLeaveStore ==
    [][<<submissions, attachmentDocs>>' = <<submissions, attachmentDocs>>]_vars

\* a stage has ended for submission id-1, which is stored with its
\* Attachment-set: the stage's result is on the channel, the stored entries
\* still have no text and no classification
C12_Witness ==
    /\ \/ ocr.pc = "done" /\ ocr.message.metadata.id = "id-1"
       \/ cls.pc = "done" /\ cls.message.metadata.id = "id-1"
    /\ Stored(submissions, attachmentDocs, "id-1").found
    /\ Stored(submissions, attachmentDocs, "id-1").ref # 0
    /\ \A n \in 1..Len(Stored(submissions, attachmentDocs, "id-1").attachments) :
        /\ Stored(submissions, attachmentDocs, "id-1").attachments[n].text = Null
        /\ Stored(submissions, attachmentDocs, "id-1").attachments[n].classification = Null
    /\ \E k \in 1..Len(published) :
        /\ published[k].topic = "event.pipeline"
        /\ published[k].message.message \in {"ocr_completed", "classification_completed"}

\* the entries of a list by filename, content type and location, in order
Identity(list) ==
    [n \in 1..Len(list) |-> <<list[n].filename, list[n].content_type, list[n].url>>]

\* C14: every stored Attachment-set has the entries (number, filename, content
\* type, location, order) of the event whose ingestion created it, whatever
\* envelopes of the pipeline the reconciler has handled, in whatever interleaving.
C14_EntriesFixed ==
    /\ \A d \in 1..Len(attachmentDocs) : \E i \in 1..Len(ing) : ing[i].attch = d
    /\ \A i \in 1..Len(ing) :
        ing[i].attch # 0
        => Identity(attachmentDocs[ing[i].attch].attachments)
                = Identity(ing[i].message.metadata.attachments)

\* the reconciler has filled text, classification and confidence of the two
\* entries of a stored Attachment-set
C14_Witness ==
    \E r \in DOMAIN rec :
        /\ Handled(r) /\ rec[r].pre.found /\ rec[r].pre.ref # 0
        /\ rec[r].pre.attachments[1].text = Null
        /\ LET now == Stored(submissions, attachmentDocs, Sid(r)).attachments
           IN  /\ Len(now) = 2
               /\ \A n \in 1..2 : /\ now[n].text = "lorem"
                                  /\ now[n].classification = "invoice"
                                  /\ now[n].confidence = "0.9"

\* list is the input list of the extraction stage, entry for entry, in which
\* every entry whose extraction returned has the extracted text, every entry of
\* an unsupported type has the text "", and nothing else is changed
Annotated(list) ==
    LET input == ocr.message.metadata.attachments IN
    /\ Identity(list) = Identity(input)
    /\ \A n \in 1..Len(input) :
        /\ list[n].classification = input[n].classification
        /\ list[n].confidence = input[n].confidence
        /\ IF ~(IsImage(input[n].content_type) \/ IsPdf(input[n].content_type))
           THEN list[n].text = ""
           ELSE ~ExtractionFailed(n) => list[n].text = ocr.engine[n].text

\* C19: the extraction stage publishes nothing before its callbacks have all
\* returned; when it has completed, the channel holds exactly one ocr_completed
\* envelope on event.pipeline and exactly one message on classification.init,
\* both with the full input list annotated with the extracted texts.
C19_ExtractionPublishes ==
    /\ ocr.pc \in {"extract", "pub_event"} => published = <<>>
    /\ ocr.pc = "pub_cls" => Len(published) = 1
    /\ ocr.pc = "done"
        => /\ Len(published) = 2
           /\ published[1].topic = "event.pipeline"
           /\ published[1].message.id = ocr.message.metadata.id
           /\ published[1].message.message = "ocr_completed"
           /\ Annotated(published[1].message.data.metadata.attachments)
           /\ published[2].topic = "classification.init"
           /\ Annotated(published[2].message.metadata.attachments)

\* the stage has completed on an image whose extraction threw, a pdf that was
\* extracted and a file of an unsupported type: both messages carry the three
C19_Witness ==
    /\ ocr.pc = "done"
    /\ Len(ocr.message.metadata.attachments) = 3
    /\ ocr.engine[1].kind = "error"
    /\ ocr.engine[2].kind = "ok"
    /\ Len(published) = 2
    /\ Len(published[2].message.metadata.attachments) = 3
    /\ published[2].message.metadata.attachments[2].text = "lorem"

\* C20: on a message that has its attachment list, no engine outcome of any
\* attachment makes the classification stage fail (only a failing cache or
\* channel call does), and a completed stage has published exactly one
\* classification_completed envelope, to event.pipeline, and nothing else.
C20_ClassificationNeverAborts ==
    /\ (cls.pc = "failed" /\ ~MalformedCls(cls.message))
        => \A i \in 1..Len(cls.cb) : cls.cb[i].st # "threw"
    /\ cls.pc = "done"
        => /\ Len(published) = 1
           /\ published[1].topic = "event.pipeline"
           /\ published[1].message.message = "classification_completed"

\* C21: the callback of an image entry calls the image extraction, that of a pdf
\* entry the pdf extraction; the callback of any other entry calls neither, has
\* returned at once with the entry's text set to "", and the stage never fails
\* on it: a stage that failed on a well-formed message had all its callbacks
\* returned.
C21_EngineByContentType ==
    /\ \A i \in 1..Len(ocr.cb) :
        LET ct == ocr.message.metadata.attachments[i].content_type IN
        /\ ct = "image/png" => ocr.cb[i].call = "extractTextFromImage"
        /\ ct = "application/pdf" => ocr.cb[i].call = "extractTextFromPdf"
        /\ ct \notin {"image/png", "application/pdf"}
            => /\ ocr.cb[i].call = "none"
               /\ ocr.cb[i].st = "settled"
               /\ ocr.cb[i].returned = "null"
               /\ ocr.cb[i].att.text = ""
    /\ (ocr.pc = "failed" /\ ~MalformedOcr(ocr.message))
        => \A i \in 1..Len(ocr.cb) : ocr.cb[i].st = "settled"

\* the stage has completed on an image, a pdf and a text file: the first two
\* carry the extracted text, the third the empty text
C21_Witness ==
    /\ ocr.pc = "done"
    /\ Len(ocr.cb) = 3
    /\ ocr.message.metadata.attachments[3].content_type = "text/plain"
    /\ Len(published) = 2
    /\ published[2].message.metadata.attachments[1].text = "lorem"
    /\ published[2].message.metadata.attachments[2].text = "lorem"
    /\ published[2].message.metadata.attachments[3].text = ""

\* C24: nothing is published while a callback of the message has not returned;
\* the text of an image extraction that settles after its timer fired is in no
\* published payload, and the two published payloads carry the same list.
C24_FanInBarrier ==
    /\ published # <<>> => \A i \in 1..Len(ocr.cb) : ocr.cb[i].st = "settled"
    /\ \A k \in 1..Len(published) :
        LET m == published[k].message
            list == IF published[k].topic = "event.pipeline"
                    THEN m.data.metadata.attachments ELSE m.metadata.attachments
        IN  \A i \in 1..Len(list) :
                (ocr.cb[i].call = "extractTextFromImage" /\ ocr.engine[i].kind = "late")
                => /\ list[i].text # ocr.engine[i].text
                   /\ list[i].text = ocr.message.metadata.attachments[i].text
    /\ Len(published) = 2
        => published[1].message.data.metadata.attachments
                = published[2].message.metadata.attachments

\* the stage has completed and the image extraction that had timed out has
\* settled, before or after the publishing
C24_Witness ==
    /\ ocr.pc = "done"
    /\ Len(published) = 2
    /\ \E i \in 1..Len(ocr.cb) :
        /\ ocr.engine[i].kind = "late"
        /\ ocr.cb[i].call = "extractTextFromImage"
        /\ ocr.cb[i].late = "settled"

\* C22: while and after a stage processes a message, the message it received is
\* as it was received: the entries of the message object equal those delivered.
C22_EnvelopesImmutable ==
    /\ (ocr.pc # "idle" /\ ~MalformedOcr(ocr.message)) => OcrMessage = ocr.message
    /\ (cls.pc # "idle" /\ ~MalformedCls(cls.message))
        => ClassificationMessage = cls.message

\* the status markers of ingestion and the kinds of the stage-completion envelopes
StatusDomain ==
    {"ingestion in progress", "ingestion done",
     "ingestion_completed", "ocr_completed", "classification_completed"}

\* C28: in every reachable state each stored Submission's status is a marker
\* written by ingestion or the kind of a stage-completion envelope; the
\* poller's IMAP_DONE, whose submission_id matches no Submission, and a failure
\* are never stored.
C28_StatusDomain ==
    \A k \in 1..Len(submissions) : submissions[k].status \in StatusDomain

\* the poller's envelope of a stored document has been handled to the end
C28_Witness ==
    \E r \in DOMAIN rec :
        /\ Handled(r)
        /\ rec[r].event.message = "IMAP_DONE"
        /\ \E k \in 1..Len(submissions) : submissions[k].id = rec[r].event.id

\* the fields of a Submission the reconciler leaves alone
Frame(s) ==
    [id |-> s.id, sender |-> s.sender, body |-> s.body, timestamp |-> s.timestamp,
     attachments |-> s.attachments]

\* C27: no step of the reconciler changes a Submission's id, sender, body,
\* timestamp or attachments reference, and none creates or deletes a Submission
\* or an Attachment-set record: only statuses and entries change.
C27_ReconciliationFrame ==
    [][/\ Len(submissions') = Len(submissions)
       /\ Len(attachmentDocs') = Len(attachmentDocs)
       /\ \A k \in 1..Len(submissions) : Frame(submissions'[k]) = Frame(submissions[k])]_vars

\* an envelope handled to the end has changed both the status and the entries
C27_Witness ==
    \E r \in DOMAIN rec :
        /\ Handled(r)
        /\ rec[r].pre.found
        /\ rec[r].pre.ref # 0
        /\ Stored(submissions, attachmentDocs, Sid(r)).status # rec[r].pre.status
        /\ Stored(submissions, attachmentDocs, Sid(r)).attachments # rec[r].pre.attachments

\* C26: a store write of the update handling an envelope for submission X
\* leaves the status and the Attachment-set of every Submission whose id
\* differs from X as they were.
C26_WritesScopedById ==
    [][\A r \in DOMAIN rec :
         (rec[r].pc \in {"status", "attach"} /\ rec'[r].pc # rec[r].pc)
            => \A k \in 1..Len(submissions) :
                 submissions[k].id # Sid(r)
                    => /\ k <= Len(submissions')
                       /\ submissions'[k].status = submissions[k].status
                       /\ submissions[k].attachments # 0
                            => /\ submissions[k].attachments <= Len(attachmentDocs')
                               /\ attachmentDocs'[submissions[k].attachments]
                                    = attachmentDocs[submissions[k].attachments]]_vars

\* envelopes of both submissions have been handled to the end, each changing
\* its own submission's status and entries
C26_Witness ==
    \E r1, r2 \in DOMAIN rec :
        /\ Handled(r1) /\ Handled(r2)
        /\ Sid(r1) = "id-1" /\ Sid(r2) = "id-3"
        /\ submissions[1].id = "id-1" /\ submissions[2].id = "id-3"
        /\ submissions[1].status = rec[r1].event.message
        /\ submissions[2].status = rec[r2].event.message
        /\ attachmentDocs[submissions[1].attachments].attachments
                = CastAttachments(rec[r1].event.data.metadata.attachments)
        /\ attachmentDocs[submissions[2].attachments].attachments
                = CastAttachments(rec[r2].event.data.metadata.attachments)
        /\ attachmentDocs[submissions[1].attachments].attachments
                # attachmentDocs[submissions[2].attachments].attachments

\* C25 as stated: when the envelope just handled to the end for a stored
\* submission is handled again at once, the store after the second update is
\* the store the first update left.
C25_ReconciliationIdempotent ==
    \A r \in DOMAIN rec :
        (Handled(r) /\ rec[r].again /\ rec[r].pre.found)
            => <<submissions, attachmentDocs>> = rec[r].before

\* a store without the stamps of its documents' last updates and without the
\* _ids of the Attachment-sets' entries
Unstamped(subs, docs) ==
    <<[k \in 1..Len(subs) |->
            [id |-> subs[k].id, sender |-> subs[k].sender, body |-> subs[k].body,
             timestamp |-> subs[k].timestamp, status |-> subs[k].status,
             attachments |-> subs[k].attachments]],
      [k \in 1..Len(docs) |-> docs[k].attachments]>>

\* C25, amended: when the envelope just handled to the end for a stored
\* submission is handled again at once, the store after the second update
\* holds the same Submissions and Attachment-sets, with the same ids, senders,
\* bodies, timestamps, statuses, references and entries, as the first update
\* left; only updatedAt and the entries' _ids are renewed.
C25_IdempotentButStamps ==
    \A r \in DOMAIN rec :
        (Handled(r) /\ rec[r].again /\ rec[r].pre.found)
            => Unstamped(submissions, attachmentDocs)
                    = Unstamped(rec[r].before[1], rec[r].before[2])

\* an envelope carrying entries has been handled twice in a row for a
\* submission that has an Attachment-set
C25_Witness ==
    \E r \in DOMAIN rec :
        /\ Handled(r) /\ rec[r].again
        /\ rec[r].pre.found /\ rec[r].pre.ref # 0
        /\ Len(rec[r].event.data.metadata.attachments) > 0

\* the submission id that an entry of the channel is about
EntryId(entry) ==
    IF entry.topic = "event.pipeline" THEN entry.message.id
    ELSE entry.message.metadata.id

\* an envelope of this kind for this id stands in the channel before position n
Before(n, kind, id) ==
    \E k \in 1..(n - 1) :
        /\ published[k].topic = "event.pipeline"
        /\ published[k].message.message = kind
        /\ published[k].message.id = id

\* ingestion's run for this id has returned and its store writes stand
IngestionWritten(id) ==
    \E i \in 1..Len(ing) :
        LET md == ing[i].message.metadata
            st == Stored(submissions, attachmentDocs, id)
        IN  /\ md.id = id
            /\ ing[i].pc = "done"
            /\ st.found
            /\ Len(md.attachments) > 0
                => /\ st.ref = ing[i].attch
                   /\ st.ref # 0
                   /\ st.status = "ingestion done"
                   /\ st.attachments = CastAttachments(md.attachments)

\* C23: with every event delivered once, for every submission id the
\* ingestion_completed envelope is published before the ocr_completed one and
\* that before the classification_completed one; extraction of a submission
\* starts only after ingestion's store writes for it, and classification only
\* after its extraction has finished.
C23_OrderedProcessing ==
    /\ \A n \in 1..Len(published) :
         published[n].topic = "event.pipeline"
            => /\ published[n].message.message = "ocr_completed"
                    => Before(n, "ingestion_completed", published[n].message.id)
               /\ published[n].message.message = "classification_completed"
                    => Before(n, "ocr_completed", published[n].message.id)
    /\ ocr.pc # "idle" => IngestionWritten(ocr.message.metadata.id)
    /\ cls.pc # "idle"
        => /\ ocr.pc = "done"
           /\ ocr.message.metadata.id = cls.message.metadata.id

\* a submission with attachments has passed the three stages while another
\* event was ingested
C23_Witness ==
    /\ cls.pc = "done"
    /\ Len(cls.message.metadata.attachments) > 0
    /\ Len(ing) = 2

\* the metadata a channel entry carries
EntryMetadata(entry) ==
    IF entry.topic = "event.pipeline" THEN entry.message.data.metadata
    ELSE entry.message.metadata

\* C29: every envelope that a stage publishes to event.pipeline has an id and
\* a metadata.submission_id equal to the id of the Submission that ingestion
\* created for the document, and the messages of ocr.init and
\* classification.init carry the same id.
C29_IdsCarried ==
    \A n \in 1..Len(published) :
        LET md == EntryMetadata(published[n]) IN
        /\ EntryId(published[n]) = md.submission_id
        /\ md.id = md.submission_id
        /\ \E i \in 1..Len(ing) :
                /\ ing[i].message.metadata.id = md.submission_id
                /\ ing[i].sub # 0
                /\ submissions[ing[i].sub].id = md.submission_id

\* the classification stage has published its envelope for a stored submission
C29_Witness ==
    \E n \in 1..Len(published) :
        /\ published[n].topic = "event.pipeline"
        /\ published[n].message.message = "classification_completed"
        /\ \E k \in 1..Len(submissions) :
                submissions[k].id = published[n].message.data.metadata.submission_id

\* the entries of the channel about one submission id, in channel order
PublishedFor(id) == SelectSeq(published, LAMBDA entry : EntryId(entry) = id)

\* how far a run of ingestion has come
IngRank(pc) ==
    CASE pc = "create" -> 0
      [] pc = "attach" -> 1
      [] pc = "link" -> 2
      [] pc = "cache" -> 3
      [] pc = "pub_event" -> 4
      [] pc = "pub_ocr" -> 5
      [] pc = "done" -> 6
      [] OTHER -> 0

OcrOn(id) == ocr.pc # "idle" /\ ocr.message.metadata.id = id
ClsOn(id) == cls.pc # "idle" /\ cls.message.metadata.id = id

\* no stage's run for this id has failed
Unfailed(i) ==
    LET id == ing[i].message.metadata.id IN
    /\ ing[i].pc # "failed"
    /\ OcrOn(id) => ocr.pc # "failed"
    /\ ClsOn(id) => cls.pc # "failed"

\* what the channel holds about the event of run i, as a function of the event,
\* the engines' outcomes and how far the stages have come
ExpectedPublished(i) ==
    LET md == ing[i].message.metadata
        ingested == IngestionPayload(md)
        extracted == ExtractedPayload(ingested, ocr.engine)
        classified == ClassifiedPayload(extracted, cls.engine)
    IN  (IF IngRank(ing[i].pc) >= 5
         THEN <<[topic |-> "event.pipeline", message |-> IngestionEvent(md)]>>
         ELSE <<>>)
        \o (IF IngRank(ing[i].pc) >= 6
            THEN <<[topic |-> "ocr.init", message |-> ingested]>>
            ELSE <<>>)
        \o (IF OcrOn(md.id) /\ ocr.pc \in {"pub_cls", "done"}
            THEN <<[topic |-> "event.pipeline",
                    message |-> Envelope(md.id, "ocr_completed", extracted)]>>
            ELSE <<>>)
        \o (IF OcrOn(md.id) /\ ocr.pc = "done"
            THEN <<[topic |-> "classification.init", message |-> extracted]>>
            ELSE <<>>)
        \o (IF ClsOn(md.id) /\ cls.pc = "done"
            THEN <<[topic |-> "event.pipeline",
                    message |-> Envelope(md.id, "classification_completed", classified)]>>
            ELSE <<>>)

\* what the store holds for the event of run i, likewise
ExpectedStored(i) ==
    LET md == ing[i].message.metadata
        linked == IngRank(ing[i].pc) >= 3 /\ Len(md.attachments) > 0
    IN  [found |-> ing[i].sub # 0,
         status |-> IF ing[i].sub = 0 THEN Null
                    ELSE IF linked THEN "ingestion done" ELSE "ingestion in progress",
         attachments |-> IF linked THEN CastAttachments(md.attachments) ELSE <<>>]

StoredFor(id) ==
    LET st == Stored(submissions, attachmentDocs, id)
    IN  [found |-> st.found, status |-> st.status, attachments |-> st.attachments]

\* C30: whatever the cache held when the pipeline started, the store and the
\* channel hold for each event what the event, the engines' outcomes and the
\* stages' progress determine: runs that differ in the cache alone have the
\* same store and the same published messages.
C30_CacheNeverRead ==
    \A i \in 1..Len(ing) :
        Unfailed(i)
            => /\ PublishedFor(ing[i].message.metadata.id) = ExpectedPublished(i)
               /\ StoredFor(ing[i].message.metadata.id) = ExpectedStored(i)

\* the three stages have handled an event whose keys the cache already held
\* when the pipeline started
C30_Witness ==
    /\ \E k \in DOMAIN cache : k = "redis:status:id-0"
    /\ ClsOn("id-1") /\ cls.pc = "done"
    /\ Len(PublishedFor("id-1")) = 5
    /\ StoredFor("id-1").status = "ingestion done"

\* the key under which ingestion and classification write a submission's snapshot
StatusKey(id) == "redis:status:" \o id

\* the kind of the last stage that has completed for the event of run i, no
\* later stage having reached its cache write; "none" otherwise
CompletedStage(i) ==
    LET id == ing[i].message.metadata.id IN
    IF ing[i].pc # "done" THEN "none"
    ELSE IF ~OcrOn(id) \/ ocr.pc = "extract" THEN "ingestion_completed"
    ELSE IF ocr.pc # "done" THEN "none"
    ELSE IF ~ClsOn(id) \/ cls.pc = "classify" THEN "ocr_completed"
    ELSE IF cls.pc = "done" THEN "classification_completed"
    ELSE "none"

\* the envelopes of event.pipeline about one submission id, in channel order
EnvelopesFor(id) ==
    SelectSeq(PublishedFor(id), LAMBDA entry : entry.topic = "event.pipeline")

\* C31: after a stage has completed for a submission, the cache entry under
\* the submission's status key holds the envelope that stage published, with
\* an expiry of one hour for the extraction stage's snapshot and none for the
\* others.
C31_CacheSnapshot ==
    \A i \in 1..Len(ing) :
        LET id == ing[i].message.metadata.id
            kind == CompletedStage(i)
            evs == EnvelopesFor(id)
        IN  kind # "none"
                => /\ Len(evs) > 0
                   /\ evs[Len(evs)].message.message = kind
                   /\ \E key \in DOMAIN cache :
                        /\ key = StatusKey(id)
                        /\ cache[key] =
                            [value |-> evs[Len(evs)].message,
                             ex |-> IF kind = "ocr_completed" THEN 3600 ELSE 0]

\* a response text that is one well-formed {type, confidence} object between
\* an opening and a closing code fence
FencedObject(text) ==
    /\ Len(text) = 3
    /\ text[1].t = "fence" /\ text[3].t = "fence"
    /\ text[2].t = "json" /\ text[2].s = "object"
    /\ text[2].type # Undefined /\ text[2].confidence # Undefined

\* C32: when the engine's response wraps a well-formed {type, confidence}
\* object in code fences, the attachment gets that type and that confidence,
\* not the fallback.
C32_FencedResponseParsed ==
    \A i \in 1..Len(cls.cb) :
        (/\ cls.cb[i].st = "settled"
         /\ cls.engine[i].kind = "ok"
         /\ FencedObject(cls.engine[i].text))
            => /\ cls.cb[i].att.classification = cls.engine[i].text[2].type
               /\ cls.cb[i].att.confidence = cls.engine[i].text[2].confidence

\* the stage has published its envelope with an attachment classified from a
\* fenced response, whose type is not the fallback's
C32_Witness ==
    /\ cls.pc = "done"
    /\ \E i \in 1..Len(cls.cb) :
        /\ cls.engine[i].kind = "ok"
        /\ FencedObject(cls.engine[i].text)
        /\ cls.cb[i].att.classification = "invoice"
        /\ cls.cb[i].att.classification # Fallback.type

\* the number literals of the model that denote a number from 0 to 1
UnitLiterals == {"0", "0.5", "0.9", "1"}

\* C33: every confidence that the classification stage writes onto an
\* attachment of its published envelope, which the reconciler then stores,
\* is a number from 0 to 1, whatever the engine returned.
C33_ConfidenceInRange ==
    \A n \in 1..Len(published) :
        (/\ published[n].topic = "event.pipeline"
         /\ published[n].message.message = "classification_completed")
            => \A j \in 1..Len(published[n].message.data.metadata.attachments) :
                LET c == published[n].message.data.metadata.attachments[j].confidence
                IN  c # Undefined => c \in UnitLiterals

\* the key under which the stage that publishes this envelope writes its snapshot
StageKey(envelope) ==
    IF envelope.message = "ocr_completed" THEN "ocr:status:" \o envelope.id
    ELSE StatusKey(envelope.id)

\* C34: a message stands in ocr.init or classification.init only after the
\* completion envelope of the same stage invocation in event.pipeline, and a
\* completion envelope is published only when the stage's cache write has
\* been made: a failed cache write leaves both publishes undone.
C34_SideEffectOrder ==
    \A n \in 1..Len(published) :
        /\ published[n].topic = "ocr.init"
            => Before(n, "ingestion_completed", EntryId(published[n]))
        /\ published[n].topic = "classification.init"
            => Before(n, "ocr_completed", EntryId(published[n]))
        /\ published[n].topic = "event.pipeline"
            => \E key \in DOMAIN cache : key = StageKey(published[n].message)

\* one event has passed the three stages, another's run has failed at its
\* cache write and nothing is published for it
C34_Witness ==
    /\ Len(PublishedFor("id-1")) = 5
    /\ \E i \in 1..Len(ing) :
        /\ ing[i].message = Second
        /\ ing[i].pc = "failed"
        /\ ing[i].sub # 0
        /\ ~ \E key \in DOMAIN cache : key = StatusKey("id-2")
        /\ PublishedFor("id-2") = <<>>

\* the event with the empty attachment list is being ingested
EmptyIngested == \E i \in 1..Len(ing) : ing[i].message = Second

\* ingestion of that event has just been started: nothing is stored for it yet
EmptyStarted ==
    \E i \in 1..Len(ing) : ing[i].message = Second /\ ing[i].pc = "create"

\* C35: an event with an empty attachment list passes every stage: with no
\* failure and fair scheduling, once its ingestion has started its stored
\* status eventually becomes classification_completed, and no Attachment-set
\* is ever created for it.
C35_EmptyListFlows ==
    /\ EmptyStarted
        ~> (Stored(submissions, attachmentDocs, "id-2").status = "classification_completed")
    /\ [](EmptyIngested
            => /\ attachmentDocs = <<>>
               /\ \A k \in 1..Len(submissions) : submissions[k].attachments = 0)

\* the event has passed the three stages, its three envelopes are handled, and
\* the store holds its Submission at classification_completed with no
\* Attachment-set
C35_Witness ==
    /\ EmptyIngested
    /\ ClsOn("id-2") /\ cls.pc = "done"
    /\ \A r \in DOMAIN rec : Handled(r)
    /\ Stored(submissions, attachmentDocs, "id-2").status = "classification_completed"
    /\ attachmentDocs = <<>>

\* C36: no step of an update that handles the poller's IMAP_DONE envelope
\* changes the store: its submission_id is the id of no Submission, so the
\* status update matches nothing and the update returns after findOne.
C36_ImapDoneNoOp ==
    [][\A r \in DOMAIN rec :
         (/\ Running(r)
          /\ rec[r].event.message = "IMAP_DONE"
          /\ rec'[r] # rec[r])
            => /\ submissions' = submissions
               /\ attachmentDocs' = attachmentDocs
               /\ rec'[r].pc # "attach"]_vars

\* the IMAP_DONE envelope of a document whose Submission is stored with an
\* Attachment-set was handled to the end: findOne returned no document
C36_Witness ==
    \E r \in DOMAIN rec :
        /\ Handled(r)
        /\ rec[r].event.message = "IMAP_DONE"
        /\ rec[r].subDoc = Null
        /\ \E k \in 1..Len(submissions) :
            /\ submissions[k].id = rec[r].event.id
            /\ submissions[k].attachments # 0

\* the positions of the submission.found events published for the message u
FoundEvents(u) ==
    {n \in Inbox("submission.found") :
        \E p \in 1..Len(polls) :
            /\ polls[p].uid = u
            /\ polls[p].id = published[n].message.metadata.id}

\* C37: each unread message of the mailbox yields at most one
\* submission.found event, also when polls overlap and when a call after the
\* publish fails.
C37_AtMostOneFound ==
    \A u \in DOMAIN mailbox : Cardinality(FoundEvents(u)) <= 1

\* poll p has published both of its messages and written its snapshot
PollPublished(p) ==
    /\ \E n \in Inbox("event.pipeline") :
            /\ published[n].message.id = polls[p].id
            /\ published[n].message.message = "IMAP_DONE"
    /\ \E n \in Inbox("submission.found") :
            published[n].message.metadata.id = polls[p].id
    /\ \E key \in DOMAIN cache :
            /\ key = StatusKey(polls[p].id)
            /\ cache[key].value = ImapDone(PollIngestion(p))

\* C38: a message gets the \Seen flag only from a poll that has published its
\* IMAP_DONE envelope and its submission.found event and written its cache
\* snapshot; a poll in which the message's processing raised an error does not
\* go on to mark it.
C38_SeenAfterPublish ==
    [][/\ \A u \in DOMAIN mailbox :
            (~mailbox[u] /\ mailbox'[u])
                => \E p \in 1..Len(polls) :
                    /\ polls[p].pc \in {"mark", "fallback"}
                    /\ polls'[p].pc \in {"idle", "done"}
                    /\ polls[p].uid = u
                    /\ ~polls[p].error
                    /\ polls[p].steps = <<"event.pipeline", "submission.found", "redis.set">>
                    /\ PollPublished(p)
       /\ \A p \in 1..Len(polls') :
            polls'[p].error
                => /\ polls'[p].pc \in {"next", "done"}
                   /\ polls'[p].processedUids = <<>>]_vars

\* one poll has marked its message after its three calls, and a poll whose
\* redis.set threw after both publishes has ended leaving its message unread
C38_Witness ==
    /\ \E p \in 1..Len(polls) :
        /\ polls[p].pc = "done"
        /\ polls[p].processedUids # <<>>
        /\ mailbox[polls[p].uid]
    /\ \E p \in 1..Len(polls) :
        /\ polls[p].pc = "done"
        /\ polls[p].error
        /\ polls[p].steps = <<"event.pipeline", "submission.found">>
        /\ ~mailbox[polls[p].uid]

====
